---- MODULE Spec2Model ----
(***************************************************************************)
(* Model of the source-reading subsystem of mcp-servers-manager            *)
(* (src/utils/system_utils.py): the three per-application normalizers and  *)
(* the aggregator get_mcp_servers, over parsed JSON values.                *)
(*                                                                         *)
(* A Python/JSON value is a record [k, s, e]:                              *)
(*   k  the type tag: "null" "bool" "num" "str" "list" "dict"              *)
(*   s  the characters of a str (a tuple of one-character strings); for a  *)
(*      bool or num the tuple <<"0">> is the falsy payload                 *)
(*   e  the entries of a list or dict, each [key |-> chars, val |-> value];*)
(*      a list entry has key <<>>                                          *)
(* Python's None is JSON null.                                             *)
(***************************************************************************)
EXTENDS Integers, Sequences, FiniteSets, TLC

(***************************************************************************)
(* Bounds                                                                  *)
(***************************************************************************)
\* longest `mcpServers` mapping / `servers` list of a per-application config
MaxEntries == 2
\* longest `sources` list of the manifest
MaxSources == 2
\* calls of get_mcp_servers in a row
MaxRuns == 2

(***************************************************************************)
(* JSON / Python values                                                    *)
(***************************************************************************)
JNull == [k |-> "null", s |-> <<>>, e |-> <<>>]
JTrue == [k |-> "bool", s |-> <<"1">>, e |-> <<>>]
JNum5 == [k |-> "num", s |-> <<"5">>, e |-> <<>>]
JStr(cs) == [k |-> "str", s |-> cs, e |-> <<>>]
JList(vs) == [k |-> "list", s |-> <<>>,
              e |-> [i \in 1..Len(vs) |-> [key |-> <<>>, val |-> vs[i]]]]
JDict(es) == [k |-> "dict", s |-> <<>>, e |-> es]
KV(key, v) == [key |-> key, val |-> v]

\* isinstance(v, str / dict / list)
IsStr(v) == v.k = "str"
IsDict(v) == v.k = "dict"
IsList(v) == v.k = "list"

\* Python truthiness: None, False, 0, "", [] and {} are falsy
Truthy(v) ==
    CASE v.k = "null" -> FALSE
      [] v.k \in {"bool", "num"} -> v.s # <<"0">>
      [] v.k = "str" -> v.s # <<>>
      [] OTHER -> v.e # <<>>

\* `key in d`
HasKey(d, key) == \E i \in 1..Len(d.e) : d.e[i].key = key

\* d.get(key, default)
GetDefault(d, key, default) ==
    IF HasKey(d, key)
    THEN d.e[CHOOSE i \in 1..Len(d.e) : d.e[i].key = key].val
    ELSE default

\* d.get(key): None when the key is absent
Get(d, key) == GetDefault(d, key, JNull)

\* a or b
PyOr(a, b) == IF Truthy(a) THEN a ELSE b

\* name.replace(" ", "_")
ReplaceSpaces(cs) == [i \in 1..Len(cs) |-> IF cs[i] = " " THEN "_" ELSE cs[i]]

(***************************************************************************)
(* Key and literal strings of the source                                   *)
(***************************************************************************)
K_mcpServers == <<"m", "c", "p", "S", "e", "r", "v", "e", "r", "s">>
K_servers == <<"s", "e", "r", "v", "e", "r", "s">>
K_sources == <<"s", "o", "u", "r", "c", "e", "s">>
K_url == <<"u", "r", "l">>
K_name == <<"n", "a", "m", "e">>
K_label == <<"l", "a", "b", "e", "l">>
K_command == <<"c", "o", "m", "m", "a", "n", "d">>
K_cmd == <<"c", "m", "d">>
K_args == <<"a", "r", "g", "s">>
K_id == <<"i", "d">>
K_path == <<"p", "a", "t", "h">>
S_Unnamed == <<"U", "n", "n", "a", "m", "e", "d">>
S_claude_desktop == <<"c", "l", "a", "u", "d", "e", "-", "d", "e", "s", "k", "t", "o", "p">>
S_cursor == <<"c", "u", "r", "s", "o", "r">>
S_windsurf == <<"w", "i", "n", "d", "s", "u", "r", "f">>

(***************************************************************************)
(* models/server.py: the Server record                                     *)
(***************************************************************************)
\* Server.__init__: cmd defaults to "", cmd_args to None
Server(id, name, url, server_type, server_source, cmd, cmd_args) ==
    [id |-> id, name |-> name, url |-> url, server_type |-> server_type,
     server_source |-> server_source, cmd |-> cmd, cmd_args |-> cmd_args]

ServerNoCmd(id, name, url, server_type, server_source) ==
    Server(id, name, url, server_type, server_source, JStr(<<>>), JNull)

(***************************************************************************)
(* Files.  A file is [st, val]: st is "missing" (os.path.exists is False), *)
(* "unreadable" (open raises OSError), "badutf8" (decoding raises          *)
(* UnicodeDecodeError), "badjson" (json.load raises JSONDecodeError) or    *)
(* "json" (json.load returns val).                                         *)
(***************************************************************************)
FMissing == [st |-> "missing", val |-> JNull]
FUnreadable == [st |-> "unreadable", val |-> JNull]
FBadUtf8 == [st |-> "badutf8", val |-> JNull]
FBadJson == [st |-> "badjson", val |-> JNull]
FJson(v) == [st |-> "json", val |-> v]
\* a file that is no JSON, with its raw text
FBadJsonText(cs) == [st |-> "badjson", val |-> JStr(cs)]

\* mutant: the file is opened with mode "w+", which truncates it
AfterRead_Truncated(f) == FBadJsonText(<<>>)

\* an existing file after `with open(path, "r") as fp: json.load(fp)`
AfterRead(f) == f

\* the file system after the files at `paths` were checked with
\* os.path.exists and, when present, opened for reading
ReadEffect(fsys, paths) ==
    [p \in DOMAIN fsys |->
        IF JStr(p) \in paths /\ fsys[p].st # "missing"
        THEN AfterRead(fsys[p]) ELSE fsys[p]]

\* a call's outcome: exc = "" when it returns `servers`, else the exception
Returned(servers) == [exc |-> "", servers |-> servers]
Raised(exc) == [exc |-> exc, servers |-> <<>>]

\* the file a path names; a path naming no file of the file system is missing
\* (an integer path names a file descriptor, taken to be closed)
FileAt(fsys, path) ==
    IF IsStr(path) /\ path.s \in DOMAIN fsys THEN fsys[path.s] ELSE FMissing

\* os.path.exists(path) raises TypeError for a path that is no str/int
PathTypeError(path) == path.k \in {"null", "list", "dict"}

\* the exception classes that are instances of `cls` (builtin hierarchy)
IsInstance(exc, cls) ==
    \/ exc = cls
    \/ cls = "Exception"
    \/ cls = "ValueError" /\ exc \in {"JSONDecodeError", "UnicodeDecodeError"}
    \/ cls = "OSError" /\ exc \in {"FileNotFoundError", "PermissionError"}

\* what `with open(path) as fp: json.load(fp)` raises on an existing file
\* ("" when it returns the parsed value)
LoadRaises(f) ==
    CASE f.st = "unreadable" -> "PermissionError"
      [] f.st = "badutf8" -> "UnicodeDecodeError"
      [] f.st = "badjson" -> "JSONDecodeError"
      [] OTHER -> ""

\* mutant: the handler catches json.JSONDecodeError only
CaughtByNormalizer_JsonOnly(exc) == exc = "JSONDecodeError"

\* the normalizers' `except Exception as exc: ... return []`
CaughtByNormalizer(exc) == IsInstance(exc, "Exception")

\* the common head of the three normalizers: [] for a missing file and for a
\* file whose load raises a caught exception, else the outcome `parsed`
WithConfig(fsys, path, parsed) ==
    IF PathTypeError(path) THEN Raised("TypeError")
    ELSE IF FileAt(fsys, path).st = "missing" THEN Returned(<<>>)
    ELSE IF LoadRaises(FileAt(fsys, path)) = "" THEN parsed
    ELSE IF CaughtByNormalizer(LoadRaises(FileAt(fsys, path))) THEN Returned(<<>>)
    ELSE Raised(LoadRaises(FileAt(fsys, path)))

(***************************************************************************)
(* get_mcp_servers_from_claude_desktop                                     *)
(***************************************************************************)
\* mutant: the id is the name as it stands
ClaudeServer_RawId(name, srv) ==
    Server(name, name, JStr(<<>>), "LOCAL", "CLAUDE_DESKTOP",
           Get(srv, K_command), Get(srv, K_args))

\* the Server built for one `mcpServers` item
ClaudeServer(name, srv) ==
    Server(ReplaceSpaces(name), name, JStr(<<>>), "LOCAL", "CLAUDE_DESKTOP",
           Get(srv, K_command), Get(srv, K_args))

\* `for name, srv in mcpServers.items()`: srv.get raises on a non-dict item
RECURSIVE ClaudeLoop(_, _, _)
ClaudeLoop(items, i, servers) ==
    IF i > Len(items) THEN Returned(servers)
    ELSE IF ~IsDict(items[i].val) THEN Raised("AttributeError")
    ELSE ClaudeLoop(items, i + 1,
                    Append(servers, ClaudeServer(items[i].key, items[i].val)))

\* the part after the file was parsed: data.get raises on a non-dict
ClaudeFromData(data) ==
    IF ~IsDict(data) THEN Raised("AttributeError")
    ELSE IF ~IsDict(Get(data, K_mcpServers)) THEN Returned(<<>>)
    ELSE ClaudeLoop(Get(data, K_mcpServers).e, 1, <<>>)

get_mcp_servers_from_claude_desktop(fsys, config_path) ==
    WithConfig(fsys, config_path, ClaudeFromData(FileAt(fsys, config_path).val))

(***************************************************************************)
(* get_mcp_servers_from_cursor                                             *)
(***************************************************************************)
\* _create_server: REMOTE when the entry has a str `url`, else LOCAL
CursorCreateServer(name, spec) ==
    IF IsDict(spec) /\ IsStr(Get(spec, K_url))
    THEN ServerNoCmd(ReplaceSpaces(name), name, Get(spec, K_url),
                     "REMOTE", "CURSOR")
    ELSE Server(ReplaceSpaces(name), name, JStr(<<>>), "LOCAL", "CURSOR",
                IF IsDict(spec) THEN Get(spec, K_command) ELSE JNull,
                IF IsDict(spec) THEN Get(spec, K_args) ELSE JNull)

\* the `mcpServers` pass: one record per key, in key order
CursorMcp(data) ==
    IF IsDict(data) /\ IsDict(Get(data, K_mcpServers))
    THEN [i \in 1..Len(Get(data, K_mcpServers).e) |->
             CursorCreateServer(Get(data, K_mcpServers).e[i].key,
                                Get(data, K_mcpServers).e[i].val)]
    ELSE <<>>

\* the legacy `servers` pass: name.replace raises on a non-str name
RECURSIVE CursorLegacyLoop(_, _, _)
CursorLegacyLoop(entries, i, servers) ==
    IF i > Len(entries) THEN Returned(servers)
    ELSE LET entry == entries[i].val
             url == Get(entry, K_url)
             name == GetDefault(entry, K_name, url)
         IN  IF ~IsDict(entry) THEN CursorLegacyLoop(entries, i + 1, servers)
             ELSE IF ~Truthy(url) THEN CursorLegacyLoop(entries, i + 1, servers)
             ELSE IF ~IsStr(name) THEN Raised("AttributeError")
             ELSE CursorLegacyLoop(entries, i + 1,
                      Append(servers,
                             ServerNoCmd(ReplaceSpaces(name.s), name.s, url,
                                         "REMOTE", "CURSOR")))

CursorFromData(data) ==
    IF CursorMcp(data) = <<>> /\ IsDict(data) /\ IsList(Get(data, K_servers))
    THEN CursorLegacyLoop(Get(data, K_servers).e, 1, <<>>)
    ELSE Returned(CursorMcp(data))

get_mcp_servers_from_cursor(fsys, mcp_json_path) ==
    WithConfig(fsys, mcp_json_path, CursorFromData(FileAt(fsys, mcp_json_path).val))

(***************************************************************************)
(* get_mcp_servers_from_vscode: returns [] whether the file exists or not  *)
(***************************************************************************)
get_mcp_servers_from_vscode(fsys, settings_path) ==
    IF PathTypeError(settings_path) THEN Raised("TypeError")
    ELSE IF FileAt(fsys, settings_path).st = "missing" THEN Returned(<<>>)
    ELSE Returned(<<>>)

(***************************************************************************)
(* get_mcp_servers_from_windsurf                                           *)
(***************************************************************************)
\* _spec_to_server: <<>> stands for None, <<srv>> for a Server
WindsurfSpecToServer(name, spec) ==
    IF ~IsStr(name) THEN <<>>
    ELSE IF IsDict(spec) /\ IsStr(Get(spec, K_url))
    THEN <<ServerNoCmd(ReplaceSpaces(name.s), name.s, Get(spec, K_url),
                       "REMOTE", "WINDSURF")>>
    ELSE IF IsDict(spec)
    THEN <<Server(ReplaceSpaces(name.s), name.s, JStr(<<>>), "LOCAL", "WINDSURF",
                  PyOr(Get(spec, K_command), Get(spec, K_cmd)),
                  Get(spec, K_args))>>
    ELSE <<>>

\* the `mcpServers` pass: entries that give None are left out
RECURSIVE WindsurfMcpLoop(_, _, _)
WindsurfMcpLoop(items, i, servers) ==
    IF i > Len(items) THEN servers
    ELSE WindsurfMcpLoop(items, i + 1,
             servers \o WindsurfSpecToServer(JStr(items[i].key), items[i].val))

WindsurfMcp(data) ==
    IF IsDict(data) /\ IsDict(Get(data, K_mcpServers))
    THEN WindsurfMcpLoop(Get(data, K_mcpServers).e, 1, <<>>)
    ELSE <<>>

\* the legacy `servers` pass
RECURSIVE WindsurfLegacyLoop(_, _, _)
WindsurfLegacyLoop(specs, i, servers) ==
    IF i > Len(specs) THEN Returned(servers)
    ELSE LET spec == specs[i].val
             url == Get(spec, K_url)
             name_guess == PyOr(PyOr(Get(spec, K_name), Get(spec, K_label)),
                                JStr(S_Unnamed))
             name == PyOr(Get(spec, K_name), url)
         IN  IF ~IsDict(spec) THEN WindsurfLegacyLoop(specs, i + 1, servers)
             ELSE IF ~Truthy(url) \/ ~IsStr(url)
             THEN WindsurfLegacyLoop(specs, i + 1,
                      servers \o WindsurfSpecToServer(name_guess, spec))
             ELSE IF ~IsStr(name) THEN Raised("AttributeError")
             ELSE WindsurfLegacyLoop(specs, i + 1,
                      Append(servers,
                             ServerNoCmd(ReplaceSpaces(name.s), name.s, url,
                                         "REMOTE", "WINDSURF")))

WindsurfFromData(data) ==
    IF WindsurfMcp(data) = <<>> /\ IsDict(data) /\ IsList(Get(data, K_servers))
    THEN WindsurfLegacyLoop(Get(data, K_servers).e, 1, <<>>)
    ELSE Returned(WindsurfMcp(data))

get_mcp_servers_from_windsurf(fsys, mcp_json_path) ==
    WithConfig(fsys, mcp_json_path, WindsurfFromData(FileAt(fsys, mcp_json_path).val))

(***************************************************************************)
(* get_mcp_servers                                                         *)
(***************************************************************************)
\* mutant: a missing manifest is treated as an empty one
ManifestError_MissingIgnored(m) ==
    IF m.st = "missing" THEN ""
    ELSE IF LoadRaises(m) = "JSONDecodeError" THEN "ValueError"
    ELSE LoadRaises(m)

\* mutant: a manifest that does not load is treated as an empty one
ManifestError_Swallowed(m) ==
    IF m.st = "missing" THEN "FileNotFoundError" ELSE ""

\* the head of get_mcp_servers, as the exception it raises ("" when none):
\* FileNotFoundError for a missing manifest, ValueError in place of a
\* JSONDecodeError; any other exception of the load propagates
ManifestError(m) ==
    IF m.st = "missing" THEN "FileNotFoundError"
    ELSE IF LoadRaises(m) = "JSONDecodeError" THEN "ValueError"
    ELSE LoadRaises(m)

\* mutant: any container is accepted as `sources`
HasSourcesList_AnyContainer(sources_payload) ==
    /\ IsDict(sources_payload)
    /\ \/ IsList(Get(sources_payload, K_sources))
       \/ IsDict(Get(sources_payload, K_sources))

\* the payload is a dict whose `sources` is a list
HasSourcesList(sources_payload) ==
    IsDict(sources_payload) /\ IsList(Get(sources_payload, K_sources))

\* the normalizer registered for a source id (<<>> when there is none)
NormalizerFor(source_id) ==
    IF source_id = JStr(S_claude_desktop) THEN "claude"
    ELSE IF source_id = JStr(S_cursor) THEN "cursor"
    ELSE IF source_id = JStr(S_windsurf) THEN "windsurf"
    ELSE "none"

CallNormalizer(app, fsys, path) ==
    CASE app = "claude" -> get_mcp_servers_from_claude_desktop(fsys, path)
      [] app = "cursor" -> get_mcp_servers_from_cursor(fsys, path)
      [] app = "vscode" -> get_mcp_servers_from_vscode(fsys, path)
      [] OTHER -> get_mcp_servers_from_windsurf(fsys, path)

\* mutant: the id is read with server_source["id"], a KeyError when absent
DispatchSource_KeyError(fsys, server_source) ==
    IF ~IsDict(server_source)
    THEN [exc |-> "AttributeError", servers |-> <<>>, paths |-> {}]
    ELSE IF ~HasKey(server_source, K_id)
    THEN [exc |-> "KeyError", servers |-> <<>>, paths |-> {}]
    ELSE LET source_id == Get(server_source, K_id)
             path == Get(server_source, K_path)
         IN  IF ~Truthy(source_id) \/ NormalizerFor(source_id) = "none"
                \/ ~Truthy(path)
             THEN [exc |-> "", servers |-> <<>>, paths |-> {}]
             ELSE [exc |-> CallNormalizer(NormalizerFor(source_id), fsys, path).exc,
                   servers |-> CallNormalizer(NormalizerFor(source_id), fsys, path).servers,
                   paths |-> {path}]

\* one turn of `for server_source in all_server_source`: what it raises, the
\* records it adds to all_servers, and the config paths it hands to a
\* normalizer
DispatchSource(fsys, server_source) ==
    IF ~IsDict(server_source)
    THEN [exc |-> "AttributeError", servers |-> <<>>, paths |-> {}]
    ELSE LET source_id == Get(server_source, K_id)
             path == Get(server_source, K_path)
         IN  IF ~Truthy(source_id) \/ NormalizerFor(source_id) = "none"
                \/ ~Truthy(path)
             THEN [exc |-> "", servers |-> <<>>, paths |-> {}]
             ELSE [exc |-> CallNormalizer(NormalizerFor(source_id), fsys, path).exc,
                   servers |-> CallNormalizer(NormalizerFor(source_id), fsys, path).servers,
                   paths |-> {path}]

\* mutant: the new records are put in front
Extend_Prepend(all, servers) == servers \o all

\* mutant: a record whose url is already in the list is dropped
Extend_DedupByUrl(all, servers) ==
    all \o SelectSeq(servers,
                     LAMBDA r : \/ r.url = JStr(<<>>)
                                \/ \A i \in 1..Len(all) : all[i].url # r.url)

\* all_servers += servers
Extend(all, servers) == all \o servers

\* mutant: the list outlives the call (a module-level list)
FreshAllServers_Kept(old) == old

\* `all_servers: List[Server] = []`: a new list at every call, whatever an
\* earlier call left
FreshAllServers(old) == <<>>

(***************************************************************************)
(* State                                                                   *)
(***************************************************************************)
VARIABLES
    manifest,     \* the file at mcp_server_sources_file
    fs,           \* the per-application config files, by path
    call,         \* the function called: "none", "get_mcp_servers", "claude", ...
    pc,           \* "start", "loop" (inside get_mcp_servers' for), "done"
    idx,          \* position of the for loop in the `sources` list
    all_servers,  \* the local all_servers of get_mcp_servers
    result,       \* [st, exc, servers]: st is "none", "returned" or "raised"
    probed,       \* config paths handed to a normalizer during the call
    runs,         \* calls of get_mcp_servers begun so far, this one included
    prev,         \* the result of the previous call of get_mcp_servers
    heap,         \* the Server objects constructed so far, by object number
    ctl_servers,  \* ServerController.servers: object numbers, insertion order
    selected_server_id,  \* ServerController.selected_server_id
    servers_file, \* the file at ServerController.config_path
    ctl_sources,  \* SourceController.sources: Source objects, insertion order
    sources_file, \* the file at SourceController.config_path
    built,        \* per controller: "new", "live" or "failed" (__init__ raised)
    last,         \* [op, exc, ret]: the last controller call and its outcome
    calls         \* controller calls made so far, the constructors apart

\* the state of the two controllers and of their config files
ctlvars == <<heap, ctl_servers, selected_server_id, servers_file, ctl_sources,
             sources_file, built, last, calls>>

vars == <<manifest, fs, call, pc, idx, all_servers, result, probed, runs, prev,
          heap, ctl_servers, selected_server_id, servers_file, ctl_sources,
          sources_file, built, last, calls>>

\* no controller call yet
NoCall == [op |-> "none", exc |-> "", ret |-> "None"]

NoResult == [st |-> "none", exc |-> "", servers |-> <<>>]
ResultOf(r) ==
    [st |-> IF r.exc = "" THEN "returned" ELSE "raised",
     exc |-> r.exc, servers |-> r.servers]

sources == Get(manifest.val, K_sources).e

(***************************************************************************)
(* Inputs: the files a call can find                                       *)
(***************************************************************************)
NameA == <<"A">>
NameBC == <<"B", " ", "C">>
NameD == <<"D">>
Names == {NameA, NameBC, NameD}
UrlH == <<"h", "t", "t", "p", ":", "/", "/", "h">>
UrlG == <<"h", "t", "t", "p", ":", "/", "/", "g">>
PathP == <<"p">>
PathQ == <<"q">>
Paths == {PathP, PathQ}

SeqsUpTo(S, n) == UNION {[1..m -> S] : m \in 0..n}
DistinctKeys(es) == \A i, j \in 1..Len(es) : i # j => es[i].key # es[j].key

\* values of an `mcpServers` mapping
SpecCommand == JDict(<<KV(K_command, JStr(<<"x">>)),
                       KV(K_args, JList(<<JStr(<<"y">>)>>))>>)
SpecUrl == JDict(<<KV(K_url, JStr(UrlH))>>)
SpecEmptyUrl == JDict(<<KV(K_url, JStr(<<>>))>>)
McpSpecs ==
    { JStr(<<"x">>), JDict(<<>>), SpecCommand, SpecUrl, SpecEmptyUrl,
      JDict(<<KV(K_url, JNum5), KV(K_command, JStr(<<"x">>))>>),
      JDict(<<KV(K_command, JStr(<<>>)), KV(K_cmd, JStr(<<"z">>))>>) }

McpDicts(n) ==
    { JDict(es) : es \in { x \in SeqsUpTo({KV(nm, sp) : nm \in Names, sp \in McpSpecs}, n) :
                             DistinctKeys(x) } }

\* elements of a legacy `servers` list
LegacyNamed == JDict(<<KV(K_name, JStr(NameBC)), KV(K_url, JStr(UrlG))>>)
LegacyElems ==
    { JStr(<<"x">>), LegacyNamed,
      JDict(<<KV(K_url, JStr(UrlH))>>),
      JDict(<<KV(K_name, JNum5), KV(K_url, JStr(UrlH))>>),
      JDict(<<KV(K_name, JNull), KV(K_url, JStr(UrlH))>>),
      JDict(<<KV(K_url, JNum5)>>),
      JDict(<<KV(K_name, JStr(NameBC)), KV(K_command, JStr(<<"x">>))>>),
      JDict(<<KV(K_label, JStr(<<"L">>)), KV(K_cmd, JStr(<<"z">>))>>),
      JDict(<<KV(K_name, JStr(NameA)), KV(K_url, JStr(<<>>))>>),
      JDict(<<KV(K_name, JNum5)>>) }

LegacyLists(n) == { JList(vs) : vs \in SeqsUpTo(LegacyElems, n) }

\* parsed per-application configs: every shape of one key, and the two keys
\* together for the `mcpServers` values that leave the legacy pass reachable
ConfigValues ==
    { JNull, JNum5, JStr(<<"x">>), JList(<<SpecUrl>>), JDict(<<>>) }
    \cup { JDict(<<KV(K_mcpServers, m)>>) :
             m \in McpDicts(MaxEntries) \cup {JNull, JList(<<SpecUrl>>)} }
    \cup { JDict(<<KV(K_servers, l)>>) :
             l \in LegacyLists(MaxEntries) \cup {JDict(<<>>)} }
    \cup { JDict(<<KV(K_mcpServers, m), KV(K_servers, l)>>) :
             m \in { JNull, JDict(<<>>), JDict(<<KV(NameA, JStr(<<"x">>))>>),
                     JDict(<<KV(NameA, SpecUrl)>>) },
             l \in LegacyLists(1) }

\* an editor settings file with one setting that holds a URL
K_mcpServerUrl == <<"m", "c", "p", ".", "s", "e", "r", "v", "e", "r", "U", "r", "l">>
SettingsWithUrl == JDict(<<KV(K_mcpServerUrl, JStr(UrlH))>>)

\* the raw text `{"url": "http://h"`: no JSON, with a URL in it
TextWithUrl ==
    <<"{", "\"", "u", "r", "l", "\"", ":", " ", "\"">> \o UrlH \o <<"\"">>

ConfigFiles ==
    {FMissing, FUnreadable, FBadUtf8, FBadJson, FBadJsonText(TextWithUrl)}
    \cup {FJson(v) : v \in ConfigValues \cup {SettingsWithUrl}}

\* the config files the aggregator is run against
ConfigP ==
    { FMissing, FBadJson, FJson(JList(<<>>)),
      FJson(JDict(<<KV(K_mcpServers,
                       JDict(<<KV(NameA, SpecCommand), KV(NameBC, SpecUrl)>>))>>)),
      FJson(JDict(<<KV(K_mcpServers, JDict(<<KV(NameA, JStr(<<"x">>))>>))>>)),
      FJson(JDict(<<KV(K_mcpServers, JDict(<<KV(NameD, SpecEmptyUrl)>>))>>)),
      FJson(JDict(<<KV(K_servers,
                       JList(<<LegacyNamed, JDict(<<KV(K_url, JStr(UrlH))>>)>>))>>)),
      FJson(JDict(<<KV(K_servers,
                       JList(<<JDict(<<KV(K_name, JNum5), KV(K_url, JStr(UrlH))>>)>>))>>)) }

ConfigQ ==
    { FMissing,
      FJson(JDict(<<KV(K_mcpServers,
                       JDict(<<KV(NameD, SpecCommand), KV(NameA, SpecUrl)>>))>>)),
      FJson(JDict(<<KV(K_servers,
                       JList(<<JDict(<<KV(K_label, JStr(<<"L">>)),
                                       KV(K_cmd, JStr(<<"z">>))>>),
                               LegacyNamed>>))>>)) }

\* source descriptors of the manifest
Descriptor(id, path) == JDict(<<KV(K_id, id), KV(K_path, path)>>)
Descriptors ==
    { JStr(<<"x">>), JDict(<<>>),
      JDict(<<KV(K_path, JStr(PathP))>>),
      Descriptor(JStr(<<>>), JStr(PathP)),
      Descriptor(JStr(<<"v", "s", "c", "o", "d", "e">>), JStr(PathP)),
      Descriptor(JStr(S_claude_desktop), JStr(PathP)),
      Descriptor(JStr(S_cursor), JStr(PathP)),
      Descriptor(JStr(S_cursor), JStr(PathQ)),
      Descriptor(JStr(S_windsurf), JStr(PathQ)),
      Descriptor(JStr(S_windsurf), JList(<<JStr(PathP)>>)),
      JDict(<<KV(K_id, JStr(S_cursor))>>) }

ManifestValues ==
    { JNull, JList(<<Descriptor(JStr(S_cursor), JStr(PathP))>>), JDict(<<>>),
      JDict(<<KV(K_sources, JNull)>>),
      JDict(<<KV(K_sources,
              JDict(<<KV(NameA, Descriptor(JStr(S_cursor), JStr(PathP)))>>))>>) }
    \cup { JDict(<<KV(K_sources, JList(ds))>>) : ds \in SeqsUpTo(Descriptors, MaxSources) }

ManifestFiles ==
    {FMissing, FUnreadable, FBadUtf8, FBadJson} \cup {FJson(v) : v \in ManifestValues}

(***************************************************************************)
(* Initial states: a manifest with the config files it points to, or one   *)
(* config file of any shape; nothing has been called                       *)
(***************************************************************************)
Init ==
    /\ \/ /\ manifest \in ManifestFiles
          /\ fs \in { f \in [Paths -> ConfigP \cup ConfigQ] :
                        f[PathP] \in ConfigP /\ f[PathQ] \in ConfigQ }
       \/ /\ manifest = FMissing
          /\ fs \in { f \in [Paths -> ConfigFiles] : f[PathQ] = FMissing }
    /\ call = "none"
    /\ pc = "start"
    /\ idx = 0
    /\ all_servers = <<>>
    /\ result = NoResult
    /\ probed = {}
    /\ runs = 1
    /\ prev = NoResult
    /\ heap = <<>>
    /\ ctl_servers = <<>>
    /\ selected_server_id = JNull
    /\ servers_file = FMissing
    /\ ctl_sources = <<>>
    /\ sources_file = FMissing
    /\ built = [c \in {"servers", "sources"} |-> "new"]
    /\ last = NoCall
    /\ calls = 0

(***************************************************************************)
(* Actions                                                                 *)
(***************************************************************************)
\* a direct call of one normalizer on a config path
CallNormalizerOn(app, path) ==
    /\ pc = "start"
    /\ call = "none"
    /\ call' = app
    /\ pc' = "done"
    /\ probed' = {path}
    /\ result' = ResultOf(CallNormalizer(app, fs, path))
    /\ fs' = ReadEffect(fs, {path})
    /\ UNCHANGED <<manifest, idx, all_servers, runs, prev>>
    /\ UNCHANGED ctlvars

CallClaudeDesktop == \E path \in Paths : CallNormalizerOn("claude", JStr(path))
CallCursor == \E path \in Paths : CallNormalizerOn("cursor", JStr(path))
CallVscode == \E path \in Paths : CallNormalizerOn("vscode", JStr(path))
CallWindsurf == \E path \in Paths : CallNormalizerOn("windsurf", JStr(path))

\* get_mcp_servers up to the for loop
Open ==
    /\ pc = "start"
    /\ call \in {"none", "get_mcp_servers"}
    /\ call' = "get_mcp_servers"
    /\ manifest' = IF manifest.st = "missing" THEN manifest ELSE AfterRead(manifest)
    /\ IF ManifestError(manifest) # ""
       THEN /\ pc' = "done"
            /\ result' = ResultOf(Raised(ManifestError(manifest)))
            /\ UNCHANGED <<idx, all_servers>>
       ELSE IF ~HasSourcesList(manifest.val)
       THEN /\ pc' = "done"
            /\ result' = ResultOf(Returned(<<>>))
            /\ UNCHANGED <<idx, all_servers>>
       ELSE /\ pc' = "loop"
            /\ result' = result
            /\ idx' = 1
            /\ all_servers' = FreshAllServers(all_servers)
    /\ UNCHANGED <<fs, probed, runs, prev>>
    /\ UNCHANGED ctlvars

\* one turn of the for loop
Iterate ==
    /\ pc = "loop"
    /\ idx <= Len(sources)
    /\ LET d == DispatchSource(fs, sources[idx].val)
       IN  /\ probed' = probed \cup d.paths
           /\ fs' = ReadEffect(fs, d.paths)
           /\ IF d.exc # ""
              THEN /\ pc' = "done"
                   /\ result' = ResultOf(Raised(d.exc))
                   /\ UNCHANGED <<idx, all_servers>>
              ELSE /\ pc' = "loop"
                   /\ idx' = idx + 1
                   /\ all_servers' = Extend(all_servers, d.servers)
                   /\ result' = result
    /\ UNCHANGED <<manifest, call, runs, prev>>
    /\ UNCHANGED ctlvars

\* `return all_servers`
Return ==
    /\ pc = "loop"
    /\ idx > Len(sources)
    /\ pc' = "done"
    /\ result' = ResultOf(Returned(all_servers))
    /\ UNCHANGED <<manifest, fs, call, idx, all_servers, probed, runs, prev>>
    /\ UNCHANGED ctlvars

\* the caller keeps the result and calls get_mcp_servers once more on the
\* same manifest path
Again ==
    /\ pc = "done"
    /\ call = "get_mcp_servers"
    /\ runs < MaxRuns
    /\ runs' = runs + 1
    /\ prev' = result
    /\ result' = NoResult
    /\ probed' = {}
    /\ pc' = "start"
    /\ UNCHANGED <<manifest, fs, call, idx, all_servers>>
    /\ UNCHANGED ctlvars

Next ==
    \/ CallClaudeDesktop
    \/ CallCursor
    \/ CallVscode
    \/ CallWindsurf
    \/ Open
    \/ Iterate
    \/ Return
    \/ Again

Spec == Init /\ [][Next]_vars

(***************************************************************************)
(* Claims                                                                  *)
(***************************************************************************)
AggregatorDone == call = "get_mcp_servers" /\ pc = "done"
NormalizerDone == call \in {"claude", "cursor", "windsurf"} /\ pc = "done"
\* the config file a directly called normalizer was given
ArgFile == FileAt(fs, CHOOSE path \in probed : TRUE)

\* C1: once the manifest exists and is valid JSON, get_mcp_servers never
\* raises, whatever the shape of the `sources` entries and of the config
\* files: it returns a list.
C1_AggregatorNeverRaises ==
    (AggregatorDone /\ manifest.st = "json") => result.st = "returned"

\* C2: a normalizer called on a config file that parses as JSON, whatever
\* its shape, never raises: it returns a list.
C2_NormalizersNeverRaise ==
    (NormalizerDone /\ ArgFile.st = "json") => result.st = "returned"

\* C3: for a config file that cannot be read or is not valid JSON, each
\* normalizer returns an empty list and does not raise.
C3_UnloadableConfigGivesEmpty ==
    (NormalizerDone /\ ArgFile.st # "json")
        => (result.st = "returned" /\ result.servers = <<>>)

C3_Witness ==
    /\ NormalizerDone
    /\ ArgFile.st \in {"unreadable", "badutf8", "badjson"}

\* C4: for a manifest path that does not exist, get_mcp_servers raises
\* FileNotFoundError and returns no list.
C4_MissingManifestRaises ==
    (AggregatorDone /\ manifest.st = "missing")
        => (result.st = "raised" /\ result.exc = "FileNotFoundError"
            /\ result.servers = <<>>)

C4_Witness == AggregatorDone /\ manifest.st = "missing"

\* C5: for a manifest that exists but is not valid JSON, get_mcp_servers
\* raises a ValueError, which is no FileNotFoundError.
C5_CorruptManifestRaisesValueError ==
    (AggregatorDone /\ manifest.st \in {"badjson", "badutf8"})
        => (/\ result.st = "raised"
            /\ IsInstance(result.exc, "ValueError")
            /\ ~IsInstance(result.exc, "FileNotFoundError"))

C5_Witness == AggregatorDone /\ manifest.st = "badjson"

\* C6: for a manifest whose JSON is valid but is no object with a `sources`
\* list, get_mcp_servers returns an empty list, raises nothing and hands no
\* config path to a normalizer.
C6_NoSourcesListGivesEmpty ==
    (/\ AggregatorDone
     /\ manifest.st = "json"
     /\ ~(IsDict(manifest.val) /\ IsList(Get(manifest.val, K_sources))))
        => (result.st = "returned" /\ result.servers = <<>> /\ probed = {})

C6_Witness ==
    /\ AggregatorDone
    /\ manifest.st = "json"
    /\ IsDict(manifest.val)
    /\ IsDict(Get(manifest.val, K_sources))
    /\ Get(manifest.val, K_sources).e # <<>>

\* C7: every record returned by a normalizer or by get_mcp_servers whose
\* server_type is REMOTE has a url that is a non-empty string.
C7_RemoteHasUrl ==
    \A i \in 1..Len(result.servers) :
        result.servers[i].server_type = "REMOTE"
            => (IsStr(result.servers[i].url) /\ result.servers[i].url.s # <<>>)

\* a descriptor that get_mcp_servers hands to a normalizer, and the list that
\* normalizer returns for it
Dispatched(d) ==
    IsDict(d) /\ NormalizerFor(Get(d, K_id)) # "none" /\ Truthy(Get(d, K_path))
NormalizerList(d) ==
    IF Dispatched(d)
    THEN CallNormalizer(NormalizerFor(Get(d, K_id)), fs, Get(d, K_path)).servers
    ELSE <<>>
RECURSIVE ConcatLists(_, _)
ConcatLists(ds, n) ==
    IF n = 0 THEN <<>> ELSE ConcatLists(ds, n - 1) \o NormalizerList(ds[n].val)

\* C8: the list get_mcp_servers returns is the concatenation, in manifest
\* order, of the lists the normalizers return for the dispatched
\* descriptors, each in the normalizer's own order (and all_servers is that
\* concatenation for the descriptors already visited).
C8_ResultIsConcatenation ==
    /\ pc = "loop" => all_servers = ConcatLists(sources, idx - 1)
    /\ (AggregatorDone /\ result.st = "returned" /\ HasSourcesList(manifest.val))
           => result.servers = ConcatLists(sources, Len(sources))

C8_Witness ==
    /\ AggregatorDone
    /\ result.st = "returned"
    /\ HasSourcesList(manifest.val)
    /\ Len(sources) = 2
    /\ Dispatched(sources[1].val) /\ Dispatched(sources[2].val)
    /\ Get(sources[1].val, K_path) # Get(sources[2].val, K_path)
    /\ Len(NormalizerList(sources[1].val)) = 2
    /\ Len(NormalizerList(sources[2].val)) = 2
    /\ NormalizerList(sources[1].val)[1] # NormalizerList(sources[1].val)[2]
    /\ Len(result.servers) = 4

\* a descriptor object whose id is missing, empty or registered to no
\* normalizer
SkippedDescriptor(d) ==
    /\ IsDict(d)
    /\ \/ ~HasKey(d, K_id)
       \/ ~Truthy(Get(d, K_id))
       \/ Get(d, K_id) \notin {JStr(S_claude_desktop), JStr(S_cursor), JStr(S_windsurf)}

\* C9: a descriptor whose id is missing, empty or unregistered adds no
\* record and does not abort the pass: the loop goes on to the next
\* descriptor.
C9_SkipWithoutAbort ==
    [][(pc = "loop" /\ idx <= Len(sources) /\ SkippedDescriptor(sources[idx].val))
           => (/\ pc' = "loop"
               /\ idx' = idx + 1
               /\ all_servers' = all_servers
               /\ result' = result
               /\ probed' = probed)]_vars

C9_Witness ==
    /\ AggregatorDone
    /\ result.st = "returned"
    /\ HasSourcesList(manifest.val)
    /\ Len(sources) = 2
    /\ SkippedDescriptor(sources[1].val)
    /\ ~HasKey(sources[1].val, K_id)
    /\ result.servers # <<>>

\* C10: for a Claude Desktop config (an object) whose `mcpServers` maps names
\* to objects, the normalizer returns one record per key, in key order: LOCAL,
\* CLAUDE_DESKTOP, url "", name the key, id the key with spaces replaced by
\* underscores, cmd the entry's `command`, cmd_args its `args`; when
\* `mcpServers` is missing or no mapping it returns an empty list.
C10_ClaudeRecords ==
    (call = "claude" /\ pc = "done" /\ ArgFile.st = "json" /\ IsDict(ArgFile.val))
        => LET m == Get(ArgFile.val, K_mcpServers)
           IN  IF ~IsDict(m)
               THEN result.st = "returned" /\ result.servers = <<>>
               ELSE (\A i \in 1..Len(m.e) : IsDict(m.e[i].val))
                    => /\ result.st = "returned"
                       /\ Len(result.servers) = Len(m.e)
                       /\ \A i \in 1..Len(m.e) :
                            LET r == result.servers[i]
                            IN  /\ r.server_type = "LOCAL"
                                /\ r.server_source = "CLAUDE_DESKTOP"
                                /\ r.url = JStr(<<>>)
                                /\ r.name = m.e[i].key
                                /\ Len(r.id) = Len(m.e[i].key)
                                /\ \A j \in 1..Len(r.id) :
                                     r.id[j] = IF m.e[i].key[j] = " " THEN "_"
                                               ELSE m.e[i].key[j]
                                /\ r.cmd = Get(m.e[i].val, K_command)
                                /\ r.cmd_args = Get(m.e[i].val, K_args)

C10_Witness ==
    /\ call = "claude"
    /\ pc = "done"
    /\ ArgFile.st = "json"
    /\ IsDict(Get(ArgFile.val, K_mcpServers))
    /\ Len(result.servers) = 2
    /\ result.servers[1].name = NameBC
    /\ result.servers[2].cmd = JStr(<<"x">>)

\* C11: for a Cursor config (an object) whose `mcpServers` is a mapping, the
\* normalizer returns exactly one record per key: REMOTE with the entry's
\* url when the entry is an object with a str `url`, otherwise LOCAL with
\* url "" and cmd/cmd_args from `command`/`args`; every record has source
\* CURSOR and as id the key with spaces replaced by underscores.
C11_CursorRecords ==
    (/\ call = "cursor" /\ pc = "done" /\ ArgFile.st = "json"
     /\ IsDict(ArgFile.val) /\ IsDict(Get(ArgFile.val, K_mcpServers)))
        => LET m == Get(ArgFile.val, K_mcpServers)
           IN  /\ result.st = "returned"
               /\ Len(result.servers) = Len(m.e)
               /\ \A i \in 1..Len(m.e) :
                    LET r == result.servers[i]
                        entry == m.e[i].val
                    IN  /\ r.server_source = "CURSOR"
                        /\ r.name = m.e[i].key
                        /\ Len(r.id) = Len(m.e[i].key)
                        /\ \A j \in 1..Len(r.id) :
                             r.id[j] = IF m.e[i].key[j] = " " THEN "_"
                                       ELSE m.e[i].key[j]
                        /\ IF IsDict(entry) /\ IsStr(Get(entry, K_url))
                           THEN r.server_type = "REMOTE" /\ r.url = Get(entry, K_url)
                           ELSE /\ r.server_type = "LOCAL"
                                /\ r.url = JStr(<<>>)
                                /\ r.cmd = Get(entry, K_command)
                                /\ r.cmd_args = Get(entry, K_args)

\* the elements of a legacy list that are objects with a non-empty url
RECURSIVE WithUrl(_, _)
WithUrl(entries, n) ==
    IF n = 0 THEN <<>>
    ELSE IF IsDict(entries[n].val) /\ Truthy(Get(entries[n].val, K_url))
    THEN Append(WithUrl(entries, n - 1), entries[n].val)
    ELSE WithUrl(entries, n - 1)

\* C12: for a Cursor config with no `mcpServers` key and a legacy `servers`
\* list, the normalizer returns one REMOTE record per element that is an
\* object with a non-empty url, in list order, named by the element's `name`
\* (by the url when `name` is absent); other elements are skipped.
C12_CursorLegacyRecords ==
    (/\ call = "cursor" /\ pc = "done" /\ ArgFile.st = "json"
     /\ IsDict(ArgFile.val) /\ ~HasKey(ArgFile.val, K_mcpServers)
     /\ IsList(Get(ArgFile.val, K_servers)))
        => LET kept == WithUrl(Get(ArgFile.val, K_servers).e,
                               Len(Get(ArgFile.val, K_servers).e))
           IN  /\ result.st = "returned"
               /\ Len(result.servers) = Len(kept)
               /\ \A i \in 1..Len(kept) :
                    /\ result.servers[i].server_type = "REMOTE"
                    /\ result.servers[i].url = Get(kept[i], K_url)
                    /\ result.servers[i].name =
                         (IF HasKey(kept[i], K_name) THEN Get(kept[i], K_name)
                          ELSE Get(kept[i], K_url)).s

\* a url that is a non-empty string
UsableUrl(v) == IsStr(v) /\ v.s # <<>>

\* C13: in the Windsurf normalizer a legacy `servers` element that is an
\* object without a usable url gives a LOCAL record with url "", cmd from
\* `command` (from `cmd` when `command` is absent or empty) and the name
\* chosen by `name`, then `label`, then "Unnamed"; an element with a usable
\* url gives a REMOTE record.
C13_WindsurfLegacyRecords ==
    (/\ call = "windsurf" /\ pc = "done" /\ ArgFile.st = "json"
     /\ IsDict(ArgFile.val) /\ ~HasKey(ArgFile.val, K_mcpServers)
     /\ IsList(Get(ArgFile.val, K_servers))
     /\ \A i \in 1..Len(Get(ArgFile.val, K_servers).e) :
          IsDict(Get(ArgFile.val, K_servers).e[i].val))
        => LET l == Get(ArgFile.val, K_servers).e
           IN  /\ result.st = "returned"
               /\ Len(result.servers) = Len(l)
               /\ \A i \in 1..Len(l) :
                    LET r == result.servers[i]
                        spec == l[i].val
                    IN  IF UsableUrl(Get(spec, K_url))
                        THEN r.server_type = "REMOTE" /\ r.url = Get(spec, K_url)
                        ELSE /\ r.server_type = "LOCAL"
                             /\ r.url = JStr(<<>>)
                             /\ r.cmd = (IF Truthy(Get(spec, K_command))
                                         THEN Get(spec, K_command)
                                         ELSE Get(spec, K_cmd))
                             /\ r.name =
                                  (IF Truthy(Get(spec, K_name)) THEN Get(spec, K_name)
                                   ELSE IF Truthy(Get(spec, K_label)) THEN Get(spec, K_label)
                                   ELSE JStr(S_Unnamed)).s

\* C14: a second call of get_mcp_servers on an unchanged manifest and
\* unchanged config files has the outcome of the first: the same records,
\* equal field by field, in the same order.
C14_SecondRunEqualsFirst ==
    (AggregatorDone /\ runs > 1) => result = prev

C14_Witness ==
    /\ AggregatorDone
    /\ runs = 2
    /\ prev.st = "returned"
    /\ Len(prev.servers) >= 3
    /\ \E i, j \in 1..Len(prev.servers) : prev.servers[i] # prev.servers[j]

\* the REMOTE records of a list that have the url u
RemoteWithUrl(servers, u) ==
    { i \in 1..Len(servers) :
        servers[i].server_type = "REMOTE" /\ servers[i].url = u }

\* two descriptors of the manifest whose normalizers both return a REMOTE
\* record with the url u
TwoSourcesGive(u) ==
    \E i, j \in 1..Len(sources) :
        /\ i < j
        /\ RemoteWithUrl(NormalizerList(sources[i].val), u) # {}
        /\ RemoteWithUrl(NormalizerList(sources[j].val), u) # {}

RECURSIVE CountWithUrl(_, _, _)
CountWithUrl(ds, n, u) ==
    IF n = 0 THEN 0
    ELSE CountWithUrl(ds, n - 1, u)
         + Cardinality(RemoteWithUrl(NormalizerList(ds[n].val), u))

\* C15 as stated: when two source entries produce REMOTE records with the
\* same url, the output holds one record with that url (the first).
C15_OnlyFirstSurvives ==
    (AggregatorDone /\ result.st = "returned" /\ HasSourcesList(manifest.val))
        => \A u \in {JStr(UrlH), JStr(UrlG)} :
             TwoSourcesGive(u)
                 => Cardinality(RemoteWithUrl(result.servers, u)) = 1

\* C15 as amended: when two source entries produce REMOTE records with the
\* same url, the output holds every one of them: as many records with that
\* url as the normalizers returned, none dropped.
C15_DuplicateUrlsKept ==
    (AggregatorDone /\ result.st = "returned" /\ HasSourcesList(manifest.val))
        => \A u \in {JStr(UrlH), JStr(UrlG)} :
             TwoSourcesGive(u)
                 => Cardinality(RemoteWithUrl(result.servers, u))
                      = CountWithUrl(sources, Len(sources), u)

C15_Witness ==
    /\ AggregatorDone
    /\ result.st = "returned"
    /\ HasSourcesList(manifest.val)
    /\ TwoSourcesGive(JStr(UrlH))
    /\ Get(sources[1].val, K_path) # Get(sources[2].val, K_path)
    /\ Cardinality(RemoteWithUrl(result.servers, JStr(UrlH))) = 2

\* C16: get_mcp_servers and the normalizers only read: no step of a call,
\* whether it ends in a list or in an exception, changes the manifest or a
\* config file, and no file is created.
C16_FilesOnlyRead ==
    [][manifest' = manifest /\ fs' = fs]_vars

C16_Witness ==
    /\ AggregatorDone
    /\ result.st = "raised"
    /\ \E path \in probed : FileAt(fs, path).st = "json"

\* a string that starts like a URL
IsUrl(cs) == Len(cs) > 7 /\ SubSeq(cs, 1, 7) = <<"h", "t", "t", "p", ":", "/", "/">>

\* C17: for an editor settings file in which a setting holds a URL string
\* (the only string value of the file), get_mcp_servers_from_vscode returns a
\* REMOTE record with that URL, whether the key is a candidate key or the
\* URL is found by the scan of the string values.
C17_VscodeFindsUrl ==
    (/\ call = "vscode" /\ pc = "done" /\ ArgFile.st = "json"
     /\ IsDict(ArgFile.val) /\ Len(ArgFile.val.e) = 1
     /\ IsStr(ArgFile.val.e[1].val) /\ IsUrl(ArgFile.val.e[1].val.s))
        => /\ result.st = "returned"
           /\ \E i \in 1..Len(result.servers) :
                /\ result.servers[i].server_type = "REMOTE"
                /\ result.servers[i].url = ArgFile.val.e[1].val

\* the positions of a raw text at which an http URL starts
UrlStarts(cs) ==
    { i \in 1..Len(cs) :
        i + 7 <= Len(cs) /\ SubSeq(cs, i, i + 6) = <<"h", "t", "t", "p", ":", "/", "/">> }

\* C18: when a Cursor or Windsurf config exists but is no JSON, the
\* normalizer scans the raw text: its list is empty only when the text holds
\* no http URL, and every record is REMOTE.
C18_RawTextScan ==
    (/\ call \in {"cursor", "windsurf"} /\ pc = "done"
     /\ ArgFile.st = "badjson" /\ UrlStarts(ArgFile.val.s) # {})
        => /\ result.st = "returned"
           /\ result.servers # <<>>
           /\ \A i \in 1..Len(result.servers) :
                result.servers[i].server_type = "REMOTE"

(***************************************************************************)
(* The controllers (src/controllers) and the objects they keep             *)
(* (src/models).  A Server object lives in `heap` under its object number, *)
(* so that lists of servers hold references, as in the source.             *)
(***************************************************************************)
\* longest sequence of controller calls after the two constructors
MaxCalls == 4

K_selected_server_id ==
    <<"s", "e", "l", "e", "c", "t", "e", "d", "_", "s", "e", "r", "v", "e", "r",
      "_", "i", "d">>
K_icon_type == <<"i", "c", "o", "n", "_", "t", "y", "p", "e">>
K_subtitle == <<"s", "u", "b", "t", "i", "t", "l", "e">>
K_tools == <<"t", "o", "o", "l", "s">>
S_purple_dot == <<"p", "u", "r", "p", "l", "e", "_", "d", "o", "t">>
\* a source path inside a directory; PathP is a bare file name
PathDP == <<"d", "/", "p">>

Uppers ==
    <<"A", "B", "C", "D", "E", "F", "G", "H", "I", "J", "K", "L", "M", "N", "O",
      "P", "Q", "R", "S", "T", "U", "V", "W", "X", "Y", "Z">>
Lowers ==
    <<"a", "b", "c", "d", "e", "f", "g", "h", "i", "j", "k", "l", "m", "n", "o",
      "p", "q", "r", "s", "t", "u", "v", "w", "x", "y", "z">>

\* name.lower()
Lower(cs) ==
    [i \in 1..Len(cs) |->
        IF \E j \in 1..26 : Uppers[j] = cs[i]
        THEN Lowers[CHOOSE j \in 1..26 : Uppers[j] = cs[i]]
        ELSE cs[i]]

Digits == <<"0", "1", "2", "3", "4", "5", "6", "7", "8", "9">>

\* the decimal digits of a counter, as f"{counter}" writes them
RECURSIVE IntStr(_)
IntStr(n) ==
    IF n < 10 THEN <<Digits[n + 1]>>
    ELSE IntStr(n \div 10) \o <<Digits[(n % 10) + 1]>>

\* f"{base_id}_{counter}"
Suffixed(base_id, counter) == base_id \o <<"_">> \o IntStr(counter)

\* mutant: the id is the lowered name, whether it is in use or not
generate_unique_id_BaseOnly(name, keys) == ReplaceSpaces(Lower(name))
\* _generate_unique_id of both controllers; `keys` are the ids in use
generate_unique_id(name, keys) ==
    LET base_id == ReplaceSpaces(Lower(name))
    IN  IF base_id \in keys
        THEN Suffixed(base_id,
                 CHOOSE c \in 1..(Cardinality(keys) + 1) :
                    /\ Suffixed(base_id, c) \notin keys
                    /\ \A b \in 1..(c - 1) : Suffixed(base_id, b) \in keys)
        ELSE base_id

\* head.rstrip("/")
RECURSIVE RStripSlashes(_)
RStripSlashes(cs) ==
    IF cs # <<>> /\ cs[Len(cs)] = "/"
    THEN RStripSlashes(SubSeq(cs, 1, Len(cs) - 1))
    ELSE cs

\* os.path.dirname(path): the part up to the last "/", without trailing
\* slashes unless it consists of slashes only
Dirname(path) ==
    IF \E i \in 1..Len(path) : path[i] = "/"
    THEN LET head == SubSeq(path, 1,
                        CHOOSE i \in 1..Len(path) :
                            /\ path[i] = "/"
                            /\ \A j \in (i + 1)..Len(path) : path[j] # "/")
         IN  IF RStripSlashes(head) = <<>> THEN head ELSE RStripSlashes(head)
    ELSE <<>>

\* os.makedirs(dirname, exist_ok=True) raises FileNotFoundError for ""
MakedirsRaises(dirname) == IF dirname = <<>> THEN "FileNotFoundError" ELSE ""

(***************************************************************************)
(* models/server.py as the controllers use it                              *)
(***************************************************************************)
\* a Server object: the attributes __init__ sets (obj) and the attributes
\* assigned to it afterwards (extra, a dict from attribute name to value);
\* a `sources` attribute would hold the ids of Source objects
ServerObject(obj, extra) == [obj |-> obj, extra |-> extra]

\* create_server's `Server(server_id, name, url, icon_type, subtitle)`: the
\* fourth and fifth positional parameters are server_type and cmd
NewServer(server_id, name, url, icon_type, subtitle) ==
    ServerObject(Server(JStr(server_id), JStr(name), JStr(url), icon_type,
                        "None", subtitle, JNull), JDict(<<>>))

\* the attributes to_dict reads besides id, name and url
ToDictAttrs == {K_icon_type, K_subtitle, K_sources, K_tools}

\* Server.to_dict: reading an attribute the object lacks raises
ServerToDictRaises(o) ==
    IF \A a \in ToDictAttrs : HasKey(o.extra, a) THEN "" ELSE "AttributeError"

ServerToDict(o) ==
    JDict(<<KV(K_id, o.obj.id), KV(K_name, o.obj.name), KV(K_url, o.obj.url),
            KV(K_icon_type, Get(o.extra, K_icon_type)),
            KV(K_subtitle, Get(o.extra, K_subtitle)),
            KV(K_sources, Get(o.extra, K_sources)),
            KV(K_tools, Get(o.extra, K_tools))>>)

\* Server.add_source(source): [exc, ret, o]; self.sources is read first
ServerAddSource(o, source_id) ==
    IF ~HasKey(o.extra, K_sources)
    THEN [exc |-> "AttributeError", ret |-> FALSE, o |-> o]
    ELSE IF \E i \in 1..Len(Get(o.extra, K_sources).e) :
                Get(o.extra, K_sources).e[i].val = source_id
    THEN [exc |-> "", ret |-> FALSE, o |-> o]
    ELSE [exc |-> "", ret |-> TRUE,
          o |-> ServerObject(o.obj,
                  JDict([i \in 1..Len(o.extra.e) |->
                     IF o.extra.e[i].key = K_sources
                     THEN KV(K_sources,
                             [k |-> "list", s |-> <<>>,
                              e |-> Append(o.extra.e[i].val.e,
                                           KV(<<>>, source_id))])
                     ELSE o.extra.e[i]]))]

\* Server.from_dict(data): data["id"], data["name"], data["url"], then
\* cls(..., icon_type=..., subtitle=...), keywords __init__ does not take
ServerFromDictRaises(data) ==
    IF ~IsDict(data) THEN "TypeError"
    ELSE IF \E key \in {K_id, K_name, K_url} : ~HasKey(data, key) THEN "KeyError"
    ELSE "TypeError"

(***************************************************************************)
(* models/source.py                                                        *)
(***************************************************************************)
\* Source.__init__; servers holds object numbers of Server objects
Source(id, name, path, icon_type) ==
    [id |-> id, name |-> name, path |-> path, icon_type |-> icon_type,
     servers |-> <<>>]

\* Source.add_server
SourceAddServer(source, server) ==
    IF \E i \in 1..Len(source.servers) : source.servers[i] = server
    THEN source
    ELSE [source EXCEPT !.servers = Append(@, server)]

\* Source.to_dict; `objects` is the heap
SourceToDict(source, objects) ==
    JDict(<<KV(K_id, source.id), KV(K_name, source.name),
            KV(K_path, source.path), KV(K_icon_type, source.icon_type),
            KV(K_servers,
               JList([i \in 1..Len(source.servers) |->
                        objects[source.servers[i]].obj.id]))>>)

\* Source.from_dict(data) as load_sources calls it, without a server_map:
\* the `servers` of the dictionary are not looked at
SourceFromDictRaises(data) ==
    IF ~IsDict(data) THEN "TypeError"
    ELSE IF \E key \in {K_id, K_name, K_path} : ~HasKey(data, key) THEN "KeyError"
    ELSE ""

SourceFromDict(data) ==
    Source(Get(data, K_id), Get(data, K_name), Get(data, K_path),
           GetDefault(data, K_icon_type, JStr(S_purple_dot)))

\* what the handlers `except (json.JSONDecodeError, IOError)` catch
CaughtByLoader(exc) ==
    IsInstance(exc, "JSONDecodeError") \/ IsInstance(exc, "OSError")

\* Source.load_config: [exc, val]; None for a missing file and for a caught
\* exception
SourceLoadConfig(fsys, path) ==
    LET f == FileAt(fsys, path)
    IN  IF f.st = "missing" THEN [exc |-> "", val |-> JNull]
        ELSE IF LoadRaises(f) = "" THEN [exc |-> "", val |-> f.val]
        ELSE IF CaughtByLoader(LoadRaises(f)) THEN [exc |-> "", val |-> JNull]
        ELSE [exc |-> LoadRaises(f), val |-> JNull]

\* the file system after open(path, "w") and json.dump(config)
WriteJson(fsys, path, config) ==
    [q \in DOMAIN fsys \cup {path} |-> IF q = path THEN FJson(config) ELSE fsys[q]]

\* Source.save_config: [ret, fs]; the IOError of makedirs is caught.  The
\* file system takes every write that has a directory to go to.
SourceSaveConfig(fsys, path, config) ==
    IF CaughtByLoader(MakedirsRaises(Dirname(path.s)))
    THEN [ret |-> FALSE, fs |-> fsys]
    ELSE [ret |-> TRUE, fs |-> WriteJson(fsys, path.s, config)]

\* config["servers"] = value
SetKey(d, key, value) ==
    IF HasKey(d, key)
    THEN JDict([i \in 1..Len(d.e) |->
                  IF d.e[i].key = key THEN KV(key, value) ELSE d.e[i]])
    ELSE JDict(Append(d.e, KV(key, value)))

\* mutant: no entry is taken for the server's
UrlMatches_Never(existing, url) == FALSE

\* existing.get("url") == server.url
UrlMatches(existing, url) == Get(existing, K_url) = url

\* `for existing in config["servers"]: if existing.get("url") == server.url`:
\* "found", "absent", or the exception of .get on an item that is no dict
RECURSIVE SyncScan(_, _, _)
SyncScan(items, i, url) ==
    IF i > Len(items) THEN "absent"
    ELSE IF ~IsDict(items[i].val) THEN "AttributeError"
    ELSE IF UrlMatches(items[i].val, url) THEN "found"
    ELSE SyncScan(items, i + 1, url)

\* Source.sync_server: [exc, ret, fs]
SourceSyncServer(source, server, fsys) ==
    LET loaded == SourceLoadConfig(fsys, source.path)
        config == PyOr(loaded.val, JDict(<<KV(K_servers, JList(<<>>))>>))
        ensured == IF HasKey(config, K_servers) THEN config
                   ELSE SetKey(config, K_servers, JList(<<>>))
        items == Get(ensured, K_servers)
        scan == SyncScan(items.e, 1, server.url)
        saved == SourceSaveConfig(fsys, source.path,
                    SetKey(ensured, K_servers,
                        JList([i \in 1..(Len(items.e) + 1) |->
                            IF i <= Len(items.e) THEN items.e[i].val
                            ELSE JDict(<<KV(K_name, server.name),
                                         KV(K_url, server.url)>>)])))
    IN  IF loaded.exc # "" THEN [exc |-> loaded.exc, ret |-> FALSE, fs |-> fsys]
        ELSE IF ~IsDict(config) THEN [exc |-> "TypeError", ret |-> FALSE, fs |-> fsys]
        ELSE IF ~IsList(items)
        THEN [exc |-> IF items.k \in {"null", "bool", "num"}
                      THEN "TypeError" ELSE "AttributeError",
              ret |-> FALSE, fs |-> fsys]
        ELSE IF scan = "AttributeError"
        THEN [exc |-> "AttributeError", ret |-> FALSE, fs |-> fsys]
        ELSE IF scan = "found" THEN [exc |-> "", ret |-> TRUE, fs |-> fsys]
        ELSE [exc |-> "", ret |-> saved.ret, fs |-> saved.fs]

\* `for item in value` raises TypeError on a value that is not iterable
NotIterable(value) == value.k \in {"null", "bool", "num"}

\* the items `for item in value` yields: the elements of a list, the keys of
\* a dict, the characters of a str
Items(value) ==
    CASE value.k = "list" -> [i \in 1..Len(value.e) |-> value.e[i].val]
      [] value.k = "dict" -> [i \in 1..Len(value.e) |-> JStr(value.e[i].key)]
      [] value.k = "str" -> [i \in 1..Len(value.s) |-> JStr(<<value.s[i]>>)]
      [] OTHER -> <<>>

\* `sub in cs` for two strings
Contains(cs, sub) ==
    \E i \in 0..(Len(cs) - Len(sub)) : SubSeq(cs, i + 1, i + Len(sub)) = sub

\* `"servers" not in config` for a config that is no dict: "" (not in),
\* "in", or the TypeError of a number; a list is searched for the element, a
\* str for the substring
ServersNotIn(config) ==
    CASE config.k \in {"bool", "num", "null"} -> "TypeError"
      [] config.k = "str" -> IF Contains(config.s, K_servers) THEN "in" ELSE ""
      [] config.k = "list" ->
            IF \E i \in 1..Len(config.e) : config.e[i].val = JStr(K_servers)
            THEN "in" ELSE ""
      [] OTHER -> IF HasKey(config, K_servers) THEN "in" ELSE ""

\* [s for s in items if s.get("url") != server.url]: the entries kept
RECURSIVE KeptEntries(_, _)
KeptEntries(items, url) ==
    IF items = <<>> THEN <<>>
    ELSE IF UrlMatches(items[1], url) THEN KeptEntries(Tail(items), url)
    ELSE <<items[1]>> \o KeptEntries(Tail(items), url)

\* Source.remove_server_from_config: [exc, ret, fs]
SourceRemoveServerFromConfig(source, server, fsys) ==
    LET loaded == SourceLoadConfig(fsys, source.path)
        config == loaded.val
        items == Get(config, K_servers)
        kept == KeptEntries(Items(items), server.url)
        saved == SourceSaveConfig(fsys, source.path,
                                  SetKey(config, K_servers, JList(kept)))
        out(exc, ret, fsys2) == [exc |-> exc, ret |-> ret, fs |-> fsys2]
    IN  IF loaded.exc # "" THEN out(loaded.exc, FALSE, fsys)
        ELSE IF ~Truthy(config) THEN out("", FALSE, fsys)
        ELSE IF ServersNotIn(config) = "TypeError" THEN out("TypeError", FALSE, fsys)
        ELSE IF ServersNotIn(config) = "" THEN out("", FALSE, fsys)
        ELSE IF ~IsDict(config) THEN out("TypeError", FALSE, fsys)
        ELSE IF NotIterable(items) THEN out("TypeError", FALSE, fsys)
        ELSE IF \E i \in 1..Len(Items(items)) : ~IsDict(Items(items)[i])
        THEN out("AttributeError", FALSE, fsys)
        ELSE IF Len(kept) = Len(Items(items)) THEN out("", TRUE, fsys)
        ELSE out("", saved.ret, saved.fs)

(***************************************************************************)
(* controllers/server_controller.py                                        *)
(***************************************************************************)
\* the config paths of the two controllers; both lie in a directory
ServersPath == <<"c", "/", "s", "e", "r", "v", "e", "r", "s">>
SourcesPath == <<"c", "/", "s", "o", "u", "r", "c", "e", "s">>

\* ServerController.load_servers: [exc, servers, selected].  No call of
\* Server.from_dict returns, so a load that does not raise leaves
\* self.servers empty.
LoadServers(file) ==
    LET data == file.val
        listed == GetDefault(data, K_servers, JList(<<>>))
        loaded(exc, selected) == [exc |-> exc, servers |-> <<>>, selected |-> selected]
    IN  IF file.st = "missing" THEN loaded("", JNull)
        ELSE IF LoadRaises(file) # ""
        THEN loaded(IF CaughtByLoader(LoadRaises(file)) THEN "" ELSE LoadRaises(file),
                    JNull)
        ELSE IF ~IsDict(data) THEN loaded("AttributeError", JNull)
        ELSE IF NotIterable(listed) THEN loaded("TypeError", JNull)
        ELSE IF Items(listed) # <<>>
        THEN loaded(ServerFromDictRaises(Items(listed)[1]), JNull)
        ELSE loaded("", Get(data, K_selected_server_id))

\* the ids of self.servers, in insertion order
ServerIds(objects, servers) ==
    [i \in 1..Len(servers) |-> objects[servers[i]].obj.id]

\* ServerController.save_servers: [exc, file]; makedirs and to_dict stand
\* outside the try.  The file system takes every write.
SaveServers(objects, servers, selected, file) ==
    IF MakedirsRaises(Dirname(ServersPath)) # ""
    THEN [exc |-> MakedirsRaises(Dirname(ServersPath)), file |-> file]
    ELSE IF \E i \in 1..Len(servers) : ServerToDictRaises(objects[servers[i]]) # ""
    THEN [exc |-> "AttributeError", file |-> file]
    ELSE [exc |-> "",
          file |-> FJson(JDict(<<
              KV(K_servers,
                 JList([i \in 1..Len(servers) |-> ServerToDict(objects[servers[i]])])),
              KV(K_selected_server_id, selected)>>))]

\* the position of the server with this id in self.servers, 0 when absent
ServerIndex(objects, servers, server_id) ==
    IF \E i \in 1..Len(servers) : objects[servers[i]].obj.id = server_id
    THEN CHOOSE i \in 1..Len(servers) : objects[servers[i]].obj.id = server_id
    ELSE 0

\* self.servers[server_id] = server for the object number o: a key in use
\* keeps its position and gets the new object
PutServer(objects, servers, o) ==
    IF \E i \in 1..Len(servers) : objects[servers[i]].obj.id = objects[o].obj.id
    THEN [i \in 1..Len(servers) |->
            IF objects[servers[i]].obj.id = objects[o].obj.id THEN o ELSE servers[i]]
    ELSE Append(servers, o)

\* a sequence without its i-th element
RemoveAt(seq, i) == SubSeq(seq, 1, i - 1) \o SubSeq(seq, i + 1, Len(seq))

(***************************************************************************)
(* controllers/source_controller.py                                        *)
(***************************************************************************)
\* self.sources[source.id] = source: a used key keeps its place
PutSource(srcs, source) ==
    IF \E i \in 1..Len(srcs) : srcs[i].id = source.id
    THEN [i \in 1..Len(srcs) |-> IF srcs[i].id = source.id THEN source ELSE srcs[i]]
    ELSE Append(srcs, source)

\* the loop of load_sources: [exc, sources]; from_dict raises on an item
\* that is no dict or lacks a key, and a list or dict is no dict key
RECURSIVE LoadSourcesLoop(_, _, _)
LoadSourcesLoop(items, i, srcs) ==
    IF i > Len(items) THEN [exc |-> "", sources |-> srcs]
    ELSE IF SourceFromDictRaises(items[i]) # ""
    THEN [exc |-> SourceFromDictRaises(items[i]), sources |-> <<>>]
    ELSE IF Get(items[i], K_id).k \in {"list", "dict"}
    THEN [exc |-> "TypeError", sources |-> <<>>]
    ELSE LoadSourcesLoop(items, i + 1, PutSource(srcs, SourceFromDict(items[i])))

\* SourceController.load_sources: [exc, sources]
LoadSources(file) ==
    LET data == file.val
        listed == GetDefault(data, K_sources, JList(<<>>))
    IN  IF file.st = "missing" THEN [exc |-> "", sources |-> <<>>]
        ELSE IF LoadRaises(file) # ""
        THEN [exc |-> IF CaughtByLoader(LoadRaises(file)) THEN "" ELSE LoadRaises(file),
              sources |-> <<>>]
        ELSE IF ~IsDict(data) THEN [exc |-> "AttributeError", sources |-> <<>>]
        ELSE IF NotIterable(listed) THEN [exc |-> "TypeError", sources |-> <<>>]
        ELSE LoadSourcesLoop(Items(listed), 1, <<>>)

\* SourceController.save_sources: [exc, file]; makedirs stands outside the
\* try.  The file system takes every write.
SaveSources(objects, srcs, file) ==
    IF MakedirsRaises(Dirname(SourcesPath)) # ""
    THEN [exc |-> MakedirsRaises(Dirname(SourcesPath)), file |-> file]
    ELSE [exc |-> "",
          file |-> FJson(JDict(<<KV(K_sources,
                     JList([i \in 1..Len(srcs) |-> SourceToDict(srcs[i], objects)]))>>))]

\* the position of the source with this id in self.sources, 0 when absent
SourceIndex(srcs, source_id) ==
    IF \E i \in 1..Len(srcs) : srcs[i].id = source_id
    THEN CHOOSE i \in 1..Len(srcs) : srcs[i].id = source_id
    ELSE 0

\* the ids in use, as character tuples
KeysOf(ids) == {ids[i].s : i \in {j \in 1..Len(ids) : IsStr(ids[j])}}

(***************************************************************************)
(* Inputs of the controllers                                               *)
(***************************************************************************)
CtlNames == {NameA, NameBC}
SourcePaths == {PathDP, PathP}
UnknownId == <<"z">>

\* the keyword arguments of update_server
UpdateKwargs ==
    { JDict(<<KV(K_name, JStr(NameD)), KV(K_url, JStr(UrlG))>>),
      JDict(<<KV(K_icon_type, JStr(<<"r">>)), KV(K_subtitle, JStr(<<"t">>))>>) }

\* servers.json as a run can find it
ServersFiles ==
    { FMissing, FBadJson, FJson(JList(<<>>)),
      FJson(JDict(<<KV(K_servers, JList(<<>>)), KV(K_selected_server_id, JNull)>>)),
      FJson(JDict(<<KV(K_servers,
                       JList(<<JDict(<<KV(K_id, JStr(<<"a">>)),
                                       KV(K_name, JStr(NameA)),
                                       KV(K_url, JStr(UrlH))>>)>>)),
                    KV(K_selected_server_id, JStr(<<"a">>))>>)) }

\* sources.json as a run can find it
SourcesFiles ==
    { FMissing, FBadJson, FJson(JDict(<<KV(K_sources, JList(<<>>))>>)) }

\* the file at a source's path as a run can find it
SourceConfigFiles ==
    { FMissing, FBadJson, FJson(JDict(<<>>)),
      FJson(JDict(<<KV(K_servers, JList(<<JStr(<<"x">>)>>))>>)),
      FJson(JDict(<<KV(K_servers,
                       JList(<<JDict(<<KV(K_name, JStr(NameA)),
                                       KV(K_url, JStr(UrlH))>>)>>))>>)) }

\* the variables of the source-reading functions, fs apart
readervars == <<manifest, call, pc, idx, all_servers, result, probed, runs, prev>>

(***************************************************************************)
(* Initial states of the controllers' scenario: the files of an earlier    *)
(* run, no controller constructed yet                                      *)
(***************************************************************************)
InitCtl ==
    /\ manifest = FMissing
    /\ call = "controllers"
    /\ pc = "start"
    /\ idx = 0
    /\ all_servers = <<>>
    /\ result = NoResult
    /\ probed = {}
    /\ runs = 1
    /\ prev = NoResult
    /\ heap = <<>>
    /\ ctl_servers = <<>>
    /\ selected_server_id = JNull
    /\ ctl_sources = <<>>
    /\ \/ /\ servers_file \in ServersFiles
          /\ sources_file = FMissing
          /\ fs = [p \in SourcePaths |-> FMissing]
       \/ /\ servers_file = FMissing
          /\ sources_file \in SourcesFiles
          /\ fs \in { f \in [SourcePaths -> SourceConfigFiles] : f[PathP] = FMissing }
    /\ built = [c \in {"servers", "sources"} |-> "new"]
    /\ last = NoCall
    /\ calls = 0

\* the dashboard has constructed both controllers
Constructed == built["servers"] = "live" /\ built["sources"] = "live"

\* one more call, while the sequence may grow
Called == calls < MaxCalls /\ calls' = calls + 1

\* the outcome of a controller call
Outcome(op, exc, ret) == [op |-> op, exc |-> exc, ret |-> IF exc = "" THEN ret ELSE "None"]
BoolRet(b) == IF b THEN "True" ELSE "False"

(***************************************************************************)
(* Actions of ServerController                                             *)
(***************************************************************************)
\* ServerController(config_path): __init__ ends with load_servers
ServerControllerInit ==
    /\ built["servers"] = "new"
    /\ LET r == LoadServers(servers_file)
       IN  /\ built' = [built EXCEPT !["servers"] = IF r.exc = "" THEN "live" ELSE "failed"]
           /\ selected_server_id' = r.selected
           /\ ctl_servers' = r.servers
           /\ last' = Outcome("ServerController", r.exc, "obj")
    /\ UNCHANGED <<heap, servers_file, ctl_sources, sources_file, fs, calls>>
    /\ UNCHANGED readervars

create_server(name, url) ==
    /\ Constructed
    /\ LET server_id == generate_unique_id(name, KeysOf(ServerIds(heap, ctl_servers)))
           server == NewServer(server_id, name, url, "green_dot", JStr(<<>>))
           held == PutServer(Append(heap, server), ctl_servers, Len(heap) + 1)
           saved == SaveServers(Append(heap, server), held,
                                selected_server_id, servers_file)
       IN  /\ heap' = Append(heap, server)
           /\ ctl_servers' = held
           /\ servers_file' = saved.file
           /\ last' = Outcome("create_server", saved.exc, "obj")
    /\ UNCHANGED <<selected_server_id, ctl_sources, sources_file, built, fs>>
    /\ Called
    /\ UNCHANGED readervars

\* the object after update_server's assignments
Updated(o, kwargs) ==
    ServerObject(
        [o.obj EXCEPT !.name = GetDefault(kwargs, K_name, @),
                      !.url = GetDefault(kwargs, K_url, @)],
        LET withIcon == IF HasKey(kwargs, K_icon_type)
                        THEN SetKey(o.extra, K_icon_type, Get(kwargs, K_icon_type))
                        ELSE o.extra
        IN  IF HasKey(kwargs, K_subtitle)
            THEN SetKey(withIcon, K_subtitle, Get(kwargs, K_subtitle))
            ELSE withIcon)

update_server(server_id, kwargs) ==
    /\ Constructed
    /\ LET i == ServerIndex(heap, ctl_servers, JStr(server_id))
           objects == [heap EXCEPT ![ctl_servers[i]] = Updated(@, kwargs)]
           saved == SaveServers(objects, ctl_servers, selected_server_id, servers_file)
       IN  IF i = 0
           THEN /\ last' = Outcome("update_server", "", "False")
                /\ UNCHANGED <<heap, servers_file>>
           ELSE /\ heap' = objects
                /\ servers_file' = saved.file
                /\ last' = Outcome("update_server", saved.exc, "True")
    /\ UNCHANGED <<ctl_servers, selected_server_id, ctl_sources, sources_file, built, fs>>
    /\ Called
    /\ UNCHANGED readervars

delete_server(server_id) ==
    /\ Constructed
    /\ LET i == ServerIndex(heap, ctl_servers, JStr(server_id))
           servers == RemoveAt(ctl_servers, i)
           selected == IF selected_server_id = JStr(server_id)
                       THEN JNull ELSE selected_server_id
           saved == SaveServers(heap, servers, selected, servers_file)
       IN  IF i = 0
           THEN /\ last' = Outcome("delete_server", "", "False")
                /\ UNCHANGED <<ctl_servers, selected_server_id, servers_file>>
           ELSE /\ ctl_servers' = servers
                /\ selected_server_id' = selected
                /\ servers_file' = saved.file
                /\ last' = Outcome("delete_server", saved.exc, "True")
    /\ UNCHANGED <<heap, ctl_sources, sources_file, built, fs>>
    /\ Called
    /\ UNCHANGED readervars

\* mutant: any id is accepted as the selection
UnknownSelection_Accepted(objects, servers, server_id) == FALSE
\* server_id not in self.servers and server_id is not None
UnknownSelection(objects, servers, server_id) ==
    ServerIndex(objects, servers, server_id) = 0 /\ server_id # JNull

\* select_server does not call save_servers
select_server(server_id) ==
    /\ Constructed
    /\ IF UnknownSelection(heap, ctl_servers, server_id)
       THEN /\ last' = Outcome("select_server", "", "False")
            /\ UNCHANGED selected_server_id
       ELSE /\ selected_server_id' = server_id
            /\ last' = Outcome("select_server", "", "True")
    /\ UNCHANGED <<heap, ctl_servers, servers_file, ctl_sources, sources_file, built, fs>>
    /\ Called
    /\ UNCHANGED readervars

\* add_source_to_server(server_id, source) for the source at position j of
\* the SourceController
add_source_to_server(server_id, j) ==
    /\ Constructed
    /\ j \in 1..Len(ctl_sources)
    /\ LET i == ServerIndex(heap, ctl_servers, JStr(server_id))
           added == ServerAddSource(heap[ctl_servers[i]], ctl_sources[j].id)
           objects == [heap EXCEPT ![ctl_servers[i]] = added.o]
           saved == SaveServers(objects, ctl_servers, selected_server_id, servers_file)
       IN  IF i = 0
           THEN /\ last' = Outcome("add_source_to_server", "", "False")
                /\ UNCHANGED <<heap, ctl_sources, servers_file>>
           ELSE IF added.exc # ""
           THEN /\ last' = Outcome("add_source_to_server", added.exc, "None")
                /\ UNCHANGED <<heap, ctl_sources, servers_file>>
           ELSE /\ heap' = objects
                /\ ctl_sources' =
                     IF added.ret
                     THEN [ctl_sources EXCEPT ![j] = SourceAddServer(@, ctl_servers[i])]
                     ELSE ctl_sources
                /\ servers_file' = saved.file
                /\ last' = Outcome("add_source_to_server", saved.exc, BoolRet(added.ret))
    /\ UNCHANGED <<ctl_servers, selected_server_id, sources_file, built, fs>>
    /\ Called
    /\ UNCHANGED readervars

(***************************************************************************)
(* Actions of SourceController                                             *)
(***************************************************************************)
\* SourceController(config_path): __init__ ends with load_sources; the
\* dashboard constructs it right after the ServerController
SourceControllerInit ==
    /\ built["servers"] = "live"
    /\ built["sources"] = "new"
    /\ LET r == LoadSources(sources_file)
       IN  /\ built' = [built EXCEPT !["sources"] = IF r.exc = "" THEN "live" ELSE "failed"]
           /\ ctl_sources' = r.sources
           /\ last' = Outcome("SourceController", r.exc, "obj")
    /\ UNCHANGED <<heap, ctl_servers, selected_server_id, servers_file, sources_file,
                   fs, calls>>
    /\ UNCHANGED readervars

create_source(name, path) ==
    /\ Constructed
    /\ LET source_id == generate_unique_id(name,
                            KeysOf([i \in 1..Len(ctl_sources) |-> ctl_sources[i].id]))
           source == Source(JStr(source_id), JStr(name), JStr(path), JStr(S_purple_dot))
           saved == SaveSources(heap, PutSource(ctl_sources, source), sources_file)
       IN  /\ ctl_sources' = PutSource(ctl_sources, source)
           /\ sources_file' = saved.file
           /\ last' = Outcome("create_source", saved.exc, "obj")
    /\ UNCHANGED <<heap, ctl_servers, selected_server_id, servers_file, built, fs>>
    /\ Called
    /\ UNCHANGED readervars

\* sync_source_to_server(source_id, server) for the Server object number o
sync_source_to_server(source_id, o) ==
    /\ Constructed
    /\ o \in 1..Len(heap)
    /\ LET j == SourceIndex(ctl_sources, JStr(source_id))
           synced == SourceSyncServer(ctl_sources[j], heap[o].obj, fs)
           srcs == [ctl_sources EXCEPT ![j] = SourceAddServer(@, o)]
           added == ServerAddSource(heap[o], ctl_sources[j].id)
           objects == [heap EXCEPT ![o] = added.o]
       IN  IF j = 0
           THEN /\ last' = Outcome("sync_source_to_server", "", "False")
                /\ UNCHANGED <<heap, ctl_sources, sources_file, fs>>
           ELSE IF synced.exc # ""
           THEN /\ last' = Outcome("sync_source_to_server", synced.exc, "None")
                /\ UNCHANGED <<heap, ctl_sources, sources_file, fs>>
           ELSE IF ~synced.ret
           THEN /\ fs' = synced.fs
                /\ sources_file' = SaveSources(heap, ctl_sources, sources_file).file
                /\ last' = Outcome("sync_source_to_server",
                                   SaveSources(heap, ctl_sources, sources_file).exc,
                                   "False")
                /\ UNCHANGED <<heap, ctl_sources>>
           ELSE IF added.exc # ""
           THEN /\ fs' = synced.fs
                /\ ctl_sources' = srcs
                /\ last' = Outcome("sync_source_to_server", added.exc, "None")
                /\ UNCHANGED <<heap, sources_file>>
           ELSE /\ fs' = synced.fs
                /\ ctl_sources' = srcs
                /\ heap' = objects
                /\ sources_file' = SaveSources(objects, srcs, sources_file).file
                /\ last' = Outcome("sync_source_to_server",
                                   SaveSources(objects, srcs, sources_file).exc, "True")
    /\ UNCHANGED <<ctl_servers, selected_server_id, servers_file, built>>
    /\ Called
    /\ UNCHANGED readervars

CreateServer == \E name \in CtlNames : create_server(name, UrlH)
UpdateServer ==
    \E server_id \in KeysOf(ServerIds(heap, ctl_servers)) \cup {UnknownId},
       kwargs \in UpdateKwargs : update_server(server_id, kwargs)
DeleteServer ==
    \E server_id \in KeysOf(ServerIds(heap, ctl_servers)) \cup {UnknownId} :
        delete_server(server_id)
SelectServer ==
    \E server_id \in {JStr(k) : k \in KeysOf(ServerIds(heap, ctl_servers)) \cup {UnknownId}}
                     \cup {JNull} : select_server(server_id)
AddSourceToServer ==
    \E server_id \in KeysOf(ServerIds(heap, ctl_servers)) \cup {UnknownId},
       j \in 1..Len(ctl_sources) : add_source_to_server(server_id, j)
CreateSource == \E path \in SourcePaths : create_source(NameA, path)
SyncSourceToServer ==
    \E source_id \in KeysOf([i \in 1..Len(ctl_sources) |-> ctl_sources[i].id])
                     \cup {UnknownId},
       o \in 1..Len(heap) : sync_source_to_server(source_id, o)

NextCtl ==
    \/ ServerControllerInit
    \/ SourceControllerInit
    \/ CreateServer
    \/ UpdateServer
    \/ DeleteServer
    \/ SelectServer
    \/ AddSourceToServer
    \/ CreateSource
    \/ SyncSourceToServer

SpecCtl == InitCtl /\ [][NextCtl]_vars

(***************************************************************************)
(* Claims about the controllers                                            *)
(***************************************************************************)
\* what a ServerController holds of its servers: id, name and url
HeldServers(objects, servers) ==
    { <<objects[servers[i]].obj.id, objects[servers[i]].obj.name,
        objects[servers[i]].obj.url>> : i \in 1..Len(servers) }

\* the (server id, source id) pairs the two controllers hold: through the
\* servers of each source and through the sources of each server
HeldPairs(objects, servers, srcs) ==
    UNION { { <<objects[srcs[j].servers[i]].obj.id, srcs[j].id>> :
                i \in 1..Len(srcs[j].servers) } : j \in 1..Len(srcs) }
    \cup
    UNION { { <<objects[servers[i]].obj.id,
                Get(objects[servers[i]].extra, K_sources).e[n].val>> :
                n \in 1..Len(Get(objects[servers[i]].extra, K_sources).e) } :
            i \in 1..Len(servers) }

\* the pairs held by controllers constructed now on the two config paths
FreshPairs ==
    HeldPairs(<<>>, LoadServers(servers_file).servers,
              LoadSources(sources_file).sources)

\* sources.json is what save_sources writes of the sources held now
SourcesSaved == sources_file = SaveSources(heap, ctl_sources, sources_file).file

\* C19: once a server is associated with a source and the controllers have
\* saved, controllers constructed anew on the same config paths hold the same
\* (server id, source id) pairs
C19_AssociationsRoundTrip ==
    (Constructed /\ HeldPairs(heap, ctl_servers, ctl_sources) # {} /\ SourcesSaved)
        => /\ LoadServers(servers_file).exc = ""
           /\ LoadSources(sources_file).exc = ""
           /\ FreshPairs = HeldPairs(heap, ctl_servers, ctl_sources)

ServerOps == {"create_server", "update_server", "delete_server", "select_server"}

\* C20: after create_server, update_server, delete_server and select_server
\* calls, the call has completed without error and a ServerController
\* constructed anew on the same config_path holds the same ids, each with the
\* same name and url, and the same selected_server_id
C20_ServersRoundTrip ==
    (Constructed /\ last.op \in ServerOps)
        => /\ last.exc = ""
           /\ LoadServers(servers_file).exc = ""
           /\ HeldServers(<<>>, LoadServers(servers_file).servers)
                = HeldServers(heap, ctl_servers)
           /\ LoadServers(servers_file).selected = selected_server_id

(***************************************************************************)
(* A Source used on its own: sync_server and remove_server_from_config on  *)
(* the file at the source's path, for servers as the normalizers build     *)
(* them.  `heap` holds the servers, ctl_sources the one source.            *)
(***************************************************************************)
\* the servers handed to the source: two REMOTE servers sharing a url and
\* two LOCAL servers (url "")
SrcServers ==
    << ServerObject(ServerNoCmd(JStr(<<"a">>), JStr(NameA), JStr(UrlH),
                                "REMOTE", "CURSOR"), JDict(<<>>)),
       ServerObject(ServerNoCmd(JStr(<<"b", "_", "c">>), JStr(NameBC), JStr(UrlH),
                                "REMOTE", "CURSOR"), JDict(<<>>)),
       ServerObject(Server(JStr(<<"d">>), JStr(NameD), JStr(<<>>), "LOCAL", "CURSOR",
                           JStr(<<"x">>), JNull), JDict(<<>>)),
       ServerObject(Server(JStr(<<"a">>), JStr(NameA), JStr(<<>>), "LOCAL", "WINDSURF",
                           JStr(<<"x">>), JNull), JDict(<<>>)) >>

\* the file at the source's path as the source can find it
SrcFiles ==
    { FMissing, FBadJsonText(<<"/", "/">>), FJson(JDict(<<>>)),
      FJson(JDict(<<KV(K_mcpServers, JDict(<<KV(NameD, SpecCommand)>>))>>)),
      FJson(JDict(<<KV(K_servers,
                       JList(<<JDict(<<KV(K_name, JStr(NameA)),
                                       KV(K_url, JStr(UrlH))>>)>>))>>)),
      FJson(JDict(<<KV(K_servers, JList(<<JStr(<<"x">>)>>))>>)),
      FJson(JDict(<<KV(K_servers,
                       JList(<<JDict(<<KV(K_name, JStr(NameD)),
                                       KV(K_url, JStr(UrlG))>>),
                               JDict(<<KV(K_name, JStr(NameA)),
                                       KV(K_url, JStr(<<>>))>>)>>)),
                    KV(K_mcpServers, JDict(<<>>))>>)) }

\* the last call on the source: its name, the number of the server it was
\* given, its outcome, and whether the call before it was the same call
\* returning True
SourceOutcome(op, server, exc, ret) ==
    [op |-> op, server |-> server, exc |-> exc,
     ret |-> IF exc = "" THEN ret ELSE "None",
     again |-> last.op = op /\ last.server = server /\ last.ret = "True"]

InitSrc ==
    /\ manifest = FMissing
    /\ call = "source"
    /\ pc = "start"
    /\ idx = 0
    /\ all_servers = <<>>
    /\ result = NoResult
    /\ probed = {}
    /\ runs = 1
    /\ prev = NoResult
    /\ heap = SrcServers
    /\ ctl_servers = <<>>
    /\ selected_server_id = JNull
    /\ servers_file = FMissing
    /\ sources_file = FMissing
    /\ built = [c \in {"servers", "sources"} |-> "new"]
    /\ \E path \in SourcePaths :
          /\ ctl_sources = <<Source(JStr(<<"s">>), JStr(NameA), JStr(path),
                                    JStr(S_purple_dot))>>
          /\ fs \in { f \in [SourcePaths -> SrcFiles] :
                        \A q \in SourcePaths \ {path} : f[q] = FMissing }
    /\ last = [op |-> "none", server |-> 0, exc |-> "", ret |-> "None",
               again |-> FALSE]
    /\ calls = 0

\* source.sync_server(server) for the server number o
sync_server(o) ==
    /\ LET r == SourceSyncServer(ctl_sources[1], heap[o].obj, fs)
       IN  /\ fs' = r.fs
           /\ last' = SourceOutcome("sync_server", o, r.exc, BoolRet(r.ret))
    /\ Called
    /\ UNCHANGED <<heap, ctl_servers, selected_server_id, servers_file, ctl_sources,
                   sources_file, built>>
    /\ UNCHANGED readervars

\* source.remove_server_from_config(server) for the server number o
remove_server_from_config(o) ==
    /\ LET r == SourceRemoveServerFromConfig(ctl_sources[1], heap[o].obj, fs)
       IN  /\ fs' = r.fs
           /\ last' = SourceOutcome("remove_server_from_config", o, r.exc, BoolRet(r.ret))
    /\ Called
    /\ UNCHANGED <<heap, ctl_servers, selected_server_id, servers_file, ctl_sources,
                   sources_file, built>>
    /\ UNCHANGED readervars

SyncServer == \E o \in 1..Len(heap) : sync_server(o)
RemoveServerFromConfig == \E o \in 1..Len(heap) : remove_server_from_config(o)

NextSrc ==
    \/ SyncServer
    \/ RemoveServerFromConfig

SpecSrc == InitSrc /\ [][NextSrc]_vars

(***************************************************************************)
(* Claims about a Source's config file                                     *)
(***************************************************************************)
\* the file at the source's path
SourceFile == FileAt(fs, ctl_sources[1].path)
SourceFileAfter == FileAt(fs', ctl_sources[1].path)

\* the entries of the `servers` array of a file (none when there is no array)
ServersArray(file) ==
    IF file.st = "json" /\ IsDict(file.val) /\ IsList(Get(file.val, K_servers))
    THEN Items(Get(file.val, K_servers))
    ELSE <<>>

\* how many entries of the array carry this url
UrlCount(file, url) ==
    Cardinality({ i \in 1..Len(ServersArray(file)) :
                    /\ IsDict(ServersArray(file)[i])
                    /\ Get(ServersArray(file)[i], K_url) = url })

\* the step is a call of op on the server number o
StepIs(op, o) == calls' = calls + 1 /\ last'.op = op /\ last'.server = o

OtherEntries(file, url) ==
    SelectSeq(ServersArray(file),
              LAMBDA entry : ~(IsDict(entry) /\ Get(entry, K_url) = url))

\* the file parses to a mapping that has a `servers` key
HasServersKey(file) ==
    file.st = "json" /\ IsDict(file.val) /\ HasKey(file.val, K_servers)

\* C23: remove_server_from_config(server) on a file that parses and has a
\* `servers` key returns True, leaves no entry with server.url, keeps every
\* other entry in its order and does not rewrite the file when nothing was
\* removed; on a missing, unparseable or empty file or one without a
\* `servers` key it returns False and leaves the file unchanged.
C23_RemoveContract ==
    [][\A o \in 1..Len(heap) :
          StepIs("remove_server_from_config", o) =>
             IF HasServersKey(SourceFile)
             THEN /\ last'.ret = "True"
                  /\ UrlCount(SourceFileAfter, heap[o].obj.url) = 0
                  /\ ServersArray(SourceFileAfter)
                        = OtherEntries(SourceFile, heap[o].obj.url)
                  /\ UrlCount(SourceFile, heap[o].obj.url) = 0 => fs' = fs
             ELSE last'.ret = "False" /\ fs' = fs]_vars

\* the applications whose normalizer reads a config file of this kind
SyncedApps == {"claude", "cursor", "windsurf"}

\* the urls of the records the application's normalizer returns for the
\* source's file
UrlsRead(app) ==
    LET r == CallNormalizer(app, fs, ctl_sources[1].path)
    IN  { r.servers[i].url : i \in 1..Len(r.servers) }

\* C28: after sync_server(server) returned True for a REMOTE server, the
\* normalizer of Claude Desktop, Cursor and Windsurf run on the same file
\* returns a record with server.url, whatever the file held before; after
\* remove_server_from_config returned True for it, the normalizer returns no
\* record with that url.
C28_SyncVisibleToReader ==
    /\ (/\ last.op = "sync_server"
        /\ last.ret = "True"
        /\ heap[last.server].obj.server_type = "REMOTE")
          => \A app \in SyncedApps : heap[last.server].obj.url \in UrlsRead(app)
    /\ (/\ last.op = "remove_server_from_config"
        /\ last.ret = "True"
        /\ heap[last.server].obj.server_type = "REMOTE")
          => \A app \in SyncedApps : heap[last.server].obj.url \notin UrlsRead(app)

\* the top-level keys of a parsed file other than `servers`, with their values
OtherKeys(file) ==
    IF file.st = "json" /\ IsDict(file.val)
    THEN SelectSeq(file.val.e, LAMBDA kv : kv.key # K_servers)
    ELSE <<>>

\* the record sync_server writes for a server
SyncRecord(server) == JDict(<<KV(K_name, server.name), KV(K_url, server.url)>>)

\* C29: sync_server changes nothing in the source's file except appending one
\* {name, url} record to the `servers` array: every other top-level key and
\* every earlier entry of the array is preserved, whatever the file held
\* before; a file that exists but is no JSON keeps its content.
C29_SyncFrame ==
    [][\A o \in 1..Len(heap) :
          StepIs("sync_server", o) =>
             /\ \A q \in DOMAIN fs : q # ctl_sources[1].path.s => fs'[q] = fs[q]
             /\ SourceFile.st \notin {"missing", "json"} => SourceFileAfter = SourceFile
             /\ OtherKeys(SourceFileAfter) = OtherKeys(SourceFile)
             /\ \/ ServersArray(SourceFileAfter) = ServersArray(SourceFile)
                \/ ServersArray(SourceFileAfter)
                      = Append(ServersArray(SourceFile), SyncRecord(heap[o].obj))]_vars

\* the array of the file holds the record sync_server writes for the server
HasEntryFor(file, server) ==
    \E i \in 1..Len(ServersArray(file)) : ServersArray(file)[i] = SyncRecord(server)

\* C30: sync and removal of one server leave another server's entry alone:
\* when sync_server(B) returns True right after a successful sync_server(A)
\* for another server A whose record is in the array, the array holds a record
\* for A and one for B, also when both are LOCAL (url "") or share a url; and
\* remove_server_from_config(A) keeps the record of every other server B.
C30_NoInterference ==
    [][\A a, b \in 1..Len(heap) :
          heap[a].obj # heap[b].obj =>
             /\ (/\ StepIs("sync_server", b)
                 /\ last'.ret = "True"
                 /\ last.op = "sync_server" /\ last.server = a /\ last.ret = "True"
                 /\ HasEntryFor(SourceFile, heap[a].obj))
                   => /\ HasEntryFor(SourceFileAfter, heap[a].obj)
                      /\ HasEntryFor(SourceFileAfter, heap[b].obj)
             /\ (/\ StepIs("remove_server_from_config", a)
                 /\ last'.exc = ""
                 /\ HasEntryFor(SourceFile, heap[b].obj))
                   => HasEntryFor(SourceFileAfter, heap[b].obj)]_vars

(***************************************************************************)
(* Claims about the controllers' held entities and their associations      *)
(***************************************************************************)
\* the selection is None or the id of a held server
SelectionHeld(objects, servers, selected) ==
    selected = JNull \/ ServerIndex(objects, servers, selected) # 0

\* C25: in every state of a constructed ServerController selected_server_id
\* is None or the id of a held server: a select_server that returns False
\* leaves the selection unchanged, one that returns True selects None or a
\* held id, and a delete_server of the selected server resets it to None.
C25_SelectionHeld ==
    [][/\ built'["servers"] = "live"
            => SelectionHeld(heap', ctl_servers', selected_server_id')
       /\ (calls' = calls + 1 /\ last'.op = "select_server" /\ last'.ret = "False")
            => selected_server_id' = selected_server_id
       /\ (/\ calls' = calls + 1
           /\ last'.op = "delete_server"
           /\ selected_server_id # JNull
           /\ ServerIndex(heap', ctl_servers', selected_server_id) = 0)
            => selected_server_id' = JNull]_vars

\* an unknown id was refused while a held server is selected
C25_Witness ==
    /\ last.op = "select_server"
    /\ last.ret = "False"
    /\ selected_server_id # JNull
    /\ ServerIndex(heap, ctl_servers, selected_server_id) # 0

(***************************************************************************)
(* Further operations of the controllers                                   *)
(***************************************************************************)
\* Server.remove_source(source): [exc, ret, o]; self.sources is read first
ServerRemoveSource(o, source_id) ==
    IF ~HasKey(o.extra, K_sources)
    THEN [exc |-> "AttributeError", ret |-> FALSE, o |-> o]
    ELSE IF \A i \in 1..Len(Get(o.extra, K_sources).e) :
                Get(o.extra, K_sources).e[i].val # source_id
    THEN [exc |-> "", ret |-> FALSE, o |-> o]
    ELSE [exc |-> "", ret |-> TRUE,
          o |-> ServerObject(o.obj,
                  SetKey(o.extra, K_sources,
                         [k |-> "list", s |-> <<>>,
                          e |-> SelectSeq(Get(o.extra, K_sources).e,
                                          LAMBDA kv : kv.val # source_id)]))]

\* Source.remove_server
SourceRemoveServer(source, server) ==
    [source EXCEPT !.servers = SelectSeq(@, LAMBDA held : held # server)]

\* remove_source_from_server(server_id, source) for the source at position j
\* of the SourceController
remove_source_from_server(server_id, j) ==
    /\ Constructed
    /\ j \in 1..Len(ctl_sources)
    /\ LET i == ServerIndex(heap, ctl_servers, JStr(server_id))
           removed == ServerRemoveSource(heap[ctl_servers[i]], ctl_sources[j].id)
           objects == [heap EXCEPT ![ctl_servers[i]] = removed.o]
           saved == SaveServers(objects, ctl_servers, selected_server_id, servers_file)
       IN  IF i = 0
           THEN /\ last' = Outcome("remove_source_from_server", "", "False")
                /\ UNCHANGED <<heap, ctl_sources, servers_file>>
           ELSE IF removed.exc # ""
           THEN /\ last' = Outcome("remove_source_from_server", removed.exc, "None")
                /\ UNCHANGED <<heap, ctl_sources, servers_file>>
           ELSE /\ heap' = objects
                /\ ctl_sources' =
                     IF removed.ret
                     THEN [ctl_sources EXCEPT ![j] = SourceRemoveServer(@, ctl_servers[i])]
                     ELSE ctl_sources
                /\ servers_file' = saved.file
                /\ last' = Outcome("remove_source_from_server", saved.exc,
                                   BoolRet(removed.ret))
    /\ UNCHANGED <<ctl_servers, selected_server_id, sources_file, built, fs>>
    /\ Called
    /\ UNCHANGED readervars

\* remove_source_from_server_config(source_id, server) for the Server object
\* number o
remove_source_from_server_config(source_id, o) ==
    /\ Constructed
    /\ o \in 1..Len(heap)
    /\ LET j == SourceIndex(ctl_sources, JStr(source_id))
           cleared == SourceRemoveServerFromConfig(ctl_sources[j], heap[o].obj, fs)
           srcs == [ctl_sources EXCEPT ![j] = SourceRemoveServer(@, o)]
           removed == ServerRemoveSource(heap[o], ctl_sources[j].id)
           objects == [heap EXCEPT ![o] = removed.o]
       IN  IF j = 0
           THEN /\ last' = Outcome("remove_source_from_server_config", "", "False")
                /\ UNCHANGED <<heap, ctl_sources, sources_file, fs>>
           ELSE IF cleared.exc # ""
           THEN /\ last' = Outcome("remove_source_from_server_config", cleared.exc,
                                   "None")
                /\ UNCHANGED <<heap, ctl_sources, sources_file, fs>>
           ELSE IF ~cleared.ret
           THEN /\ fs' = cleared.fs
                /\ sources_file' = SaveSources(heap, ctl_sources, sources_file).file
                /\ last' = Outcome("remove_source_from_server_config",
                                   SaveSources(heap, ctl_sources, sources_file).exc,
                                   "False")
                /\ UNCHANGED <<heap, ctl_sources>>
           ELSE IF removed.exc # ""
           THEN /\ fs' = cleared.fs
                /\ ctl_sources' = srcs
                /\ last' = Outcome("remove_source_from_server_config", removed.exc,
                                   "None")
                /\ UNCHANGED <<heap, sources_file>>
           ELSE /\ fs' = cleared.fs
                /\ ctl_sources' = srcs
                /\ heap' = objects
                /\ sources_file' = SaveSources(objects, srcs, sources_file).file
                /\ last' = Outcome("remove_source_from_server_config",
                                   SaveSources(objects, srcs, sources_file).exc, "True")
    /\ UNCHANGED <<ctl_servers, selected_server_id, servers_file, built>>
    /\ Called
    /\ UNCHANGED readervars

delete_source(source_id) ==
    /\ Constructed
    /\ LET j == SourceIndex(ctl_sources, JStr(source_id))
           srcs == RemoveAt(ctl_sources, j)
           saved == SaveSources(heap, srcs, sources_file)
       IN  IF j = 0
           THEN /\ last' = Outcome("delete_source", "", "False")
                /\ UNCHANGED <<ctl_sources, sources_file>>
           ELSE /\ ctl_sources' = srcs
                /\ sources_file' = saved.file
                /\ last' = Outcome("delete_source", saved.exc, "True")
    /\ UNCHANGED <<heap, ctl_servers, selected_server_id, servers_file, built, fs>>
    /\ Called
    /\ UNCHANGED readervars

(***************************************************************************)
(* SourceController.detect_sources                                         *)
(***************************************************************************)
\* os.path.expanduser("~")

HomeDir ==
    <<"/", "h">>

\* the standard locations, in the order detect_sources checks them
PathVSCode ==
    HomeDir \o
    <<"/", ".", "v", "s", "c", "o", "d", "e", "/", "e", "x", "t", "e", "n",
      "s", "i", "o", "n", "s", "/", "a", "n", "t", "h", "r", "o", "p", "i",
      "c", ".", "c", "l", "a", "u", "d", "e", "-", "1", ".", "0", ".", "0",
      "/", "m", "c", "p", ".", "j", "s", "o", "n">>
PathClaudeDesktop ==
    HomeDir \o
    <<"/", ".", "c", "o", "n", "f", "i", "g", "/", "c", "l", "a", "u", "d",
      "e", "-", "d", "e", "s", "k", "t", "o", "p", "/", "m", "c", "p", ".",
      "j", "s", "o", "n">>
PathCursor ==
    <<"/", "A", "p", "p", "l", "i", "c", "a", "t", "i", "o", "n", "s", "/",
      "C", "u", "r", "s", "o", "r", ".", "a", "p", "p", "/", "C", "o", "n",
      "t", "e", "n", "t", "s", "/", "R", "e", "s", "o", "u", "r", "c", "e",
      "s", "/", "m", "c", "p", ".", "j", "s", "o", "n">>
PathWindsurf ==
    HomeDir \o
    <<"/", ".", "w", "i", "n", "d", "s", "u", "r", "f", "/", "m", "c", "p",
      ".", "j", "s", "o", "n">>
paths_to_check == <<PathVSCode, PathClaudeDesktop, PathCursor, PathWindsurf>>

S_vscode == <<"v", "s", "c", "o", "d", "e">>
S_Cursor_app == <<"C", "u", "r", "s", "o", "r", ".", "a", "p", "p">>
NameClaudeDesktop == <<"C", "l", "a", "u", "d", "e", " ", "D", "e", "s", "k", "t", "o", "p">>
NameVSCode == <<"V", "S", " ", "C", "o", "d", "e">>
NameCursor == <<"C", "u", "r", "s", "o", "r">>
NameWindsurf == <<"W", "i", "n", "d", "s", "u", "r", "f">>
S_blue_dot == <<"b", "l", "u", "e", "_", "d", "o", "t">>
S_green_dot == <<"g", "r", "e", "e", "n", "_", "d", "o", "t">>
S_orange_dot == <<"o", "r", "a", "n", "g", "e", "_", "d", "o", "t">>


\* os.path.basename(path): the part after the last "/"
Basename(path) ==
    IF \E i \in 1..Len(path) : path[i] = "/"
    THEN SubSeq(path,
                1 + CHOOSE i \in 1..Len(path) :
                        /\ path[i] = "/"
                        /\ \A j \in (i + 1)..Len(path) : path[j] # "/",
                Len(path))
    ELSE path

\* the name and icon detect_sources gives the source of a path
DetectedAs(path) ==
    IF Contains(path, S_claude_desktop)
    THEN [name |-> NameClaudeDesktop, icon |-> S_purple_dot]
    ELSE IF Contains(path, S_vscode) THEN [name |-> NameVSCode, icon |-> S_blue_dot]
    ELSE IF Contains(path, S_Cursor_app) THEN [name |-> NameCursor, icon |-> S_green_dot]
    ELSE IF Contains(path, S_windsurf) THEN [name |-> NameWindsurf, icon |-> S_orange_dot]
    ELSE [name |-> Basename(Dirname(path)), icon |-> S_purple_dot]

\* the loop of detect_sources from the i-th path on: the sources held at its
\* end and the number of sources it created.  save_sources, on a config path
\* with a directory, does not raise.
RECURSIVE DetectLoop(_, _, _, _)
DetectLoop(fsys, i, srcs, detected) ==
    IF i > Len(paths_to_check) THEN [sources |-> srcs, detected |-> detected]
    ELSE LET path == paths_to_check[i]
             keys == KeysOf([n \in 1..Len(srcs) |-> srcs[n].id])
             source_id == generate_unique_id(DetectedAs(path).name, keys)
         IN  IF FileAt(fsys, JStr(path)).st = "missing"
             THEN DetectLoop(fsys, i + 1, srcs, detected)
             ELSE IF source_id \in keys
             THEN DetectLoop(fsys, i + 1, srcs, detected)
             ELSE DetectLoop(fsys, i + 1,
                      PutSource(srcs, Source(JStr(source_id),
                                             JStr(DetectedAs(path).name), JStr(path),
                                             JStr(DetectedAs(path).icon))),
                      detected + 1)

detect_sources ==
    /\ Constructed
    /\ LET r == DetectLoop(fs, 1, ctl_sources, 0)
       IN  /\ ctl_sources' = r.sources
           /\ sources_file' = IF r.detected = 0 THEN sources_file
                              ELSE SaveSources(heap, r.sources, sources_file).file
           /\ last' = Outcome("detect_sources", "",
                              IF r.detected = 0 THEN "[]" ELSE "[sources]")
    /\ UNCHANGED <<heap, ctl_servers, selected_server_id, servers_file, built, fs>>
    /\ Called
    /\ UNCHANGED readervars

(***************************************************************************)
(* Runs of the controllers from a fresh installation                       *)
(***************************************************************************)
\* names that lower to an id and to an id with a numeric suffix
CrudNames == {NameA, <<"a", "_", "1">>}

\* no config file exists yet
InitFresh ==
    /\ manifest = FMissing
    /\ call = "controllers"
    /\ pc = "start"
    /\ idx = 0
    /\ all_servers = <<>>
    /\ result = NoResult
    /\ probed = {}
    /\ runs = 1
    /\ prev = NoResult
    /\ heap = <<>>
    /\ ctl_servers = <<>>
    /\ selected_server_id = JNull
    /\ ctl_sources = <<>>
    /\ servers_file = FMissing
    /\ sources_file = FMissing
    /\ fs = [p \in SourcePaths |-> FMissing]
    /\ built = [c \in {"servers", "sources"} |-> "new"]
    /\ last = NoCall
    /\ calls = 0

\* the standard locations that exist hold an empty mapping
InitDetect ==
    /\ manifest = FMissing
    /\ call = "controllers"
    /\ pc = "start"
    /\ idx = 0
    /\ all_servers = <<>>
    /\ result = NoResult
    /\ probed = {}
    /\ runs = 1
    /\ prev = NoResult
    /\ heap = <<>>
    /\ ctl_servers = <<>>
    /\ selected_server_id = JNull
    /\ ctl_sources = <<>>
    /\ servers_file = FMissing
    /\ sources_file \in SourcesFiles
    /\ fs \in [{paths_to_check[i] : i \in 1..Len(paths_to_check)}
                 -> {FMissing, FJson(JDict(<<>>))}]
    /\ built = [c \in {"servers", "sources"} |-> "new"]
    /\ last = NoCall
    /\ calls = 0

CreateServerNamed == \E name \in CrudNames : create_server(name, UrlH)
CreateSourceNamed == \E name \in CrudNames : create_source(name, PathDP)
DeleteSource ==
    \E source_id \in KeysOf([i \in 1..Len(ctl_sources) |-> ctl_sources[i].id])
                     \cup {UnknownId} : delete_source(source_id)
RemoveSourceFromServer ==
    \E server_id \in KeysOf(ServerIds(heap, ctl_servers)) \cup {UnknownId},
       j \in 1..Len(ctl_sources) : remove_source_from_server(server_id, j)
SyncSourceToHeldServer ==
    \E source_id \in KeysOf([i \in 1..Len(ctl_sources) |-> ctl_sources[i].id])
                     \cup {UnknownId},
       i \in 1..Len(ctl_servers) : sync_source_to_server(source_id, ctl_servers[i])
RemoveSourceFromServerConfig ==
    \E source_id \in KeysOf([i \in 1..Len(ctl_sources) |-> ctl_sources[i].id])
                     \cup {UnknownId},
       i \in 1..Len(ctl_servers) :
          remove_source_from_server_config(source_id, ctl_servers[i])
DetectSources == detect_sources

\* creation and deletion in both controllers
NextCrud ==
    \/ ServerControllerInit
    \/ SourceControllerInit
    \/ CreateServerNamed
    \/ DeleteServer
    \/ CreateSourceNamed
    \/ DeleteSource

SpecCrud == InitFresh /\ [][NextCrud]_vars

\* the operations on the server/source relationship, with deletion
NextRel ==
    \/ ServerControllerInit
    \/ SourceControllerInit
    \/ CreateServer
    \/ CreateSource
    \/ AddSourceToServer
    \/ RemoveSourceFromServer
    \/ SyncSourceToHeldServer
    \/ RemoveSourceFromServerConfig
    \/ DeleteServer
    \/ DeleteSource

SpecRel == InitFresh /\ [][NextRel]_vars

\* detection of the standard locations
NextDetect ==
    \/ ServerControllerInit
    \/ SourceControllerInit
    \/ DetectSources
    \/ DeleteSource

SpecDetect == InitDetect /\ [][NextDetect]_vars

\* the ids of the sources held, as character tuples
SourceKeys(srcs) == KeysOf([i \in 1..Len(srcs) |-> srcs[i].id])

\* C21: every create_server and every create_source call, whatever the name
\* (also a name that lowers to an id in use, or to an id in use with a numeric
\* suffix), stores the new entity under an id no held entity had: the
\* entities held before are all kept and their number grows by exactly one.
C21_CreateUnderFreshId ==
    [][/\ (calls' = calls + 1 /\ last'.op = "create_server")
            => /\ Len(ctl_servers') = Len(ctl_servers) + 1
               /\ SubSeq(ctl_servers', 1, Len(ctl_servers)) = ctl_servers
               /\ heap'[ctl_servers'[Len(ctl_servers')]].obj.id.s
                     \notin KeysOf(ServerIds(heap, ctl_servers))
       /\ (calls' = calls + 1 /\ last'.op = "create_source")
            => /\ Len(ctl_sources') = Len(ctl_sources) + 1
               /\ SubSeq(ctl_sources', 1, Len(ctl_sources)) = ctl_sources
               /\ ctl_sources'[Len(ctl_sources')].id.s \notin SourceKeys(ctl_sources)]_vars

\* a server was created under the second suffix of an id in use
C21_Witness ==
    /\ last.op = "create_server"
    /\ Len(ctl_servers) = 3
    /\ heap[ctl_servers[3]].obj.id = JStr(Suffixed(<<"a">>, 2))

\* C24: detect_sources creates a source for a detected location only if it
\* does not exist yet: a detect_sources call right after another, with the
\* same files present, creates no source and returns an empty list, so the
\* sources held are those held after the first call.
C24_DetectTwice ==
    [][(calls' = calls + 1 /\ last'.op = "detect_sources" /\ last.op = "detect_sources")
          => ctl_sources' = ctl_sources /\ last'.ret = "[]"]_vars

\* the server object is listed by the source
SourceListsServer(source, o) == \E i \in 1..Len(source.servers) : source.servers[i] = o

\* the server object lists the source id (a Server without `sources` lists none)
ServerListsSource(object, source_id) ==
    /\ HasKey(object.extra, K_sources)
    /\ \E n \in 1..Len(Get(object.extra, K_sources).e) :
          Get(object.extra, K_sources).e[n].val = source_id

\* C26: the two ends of the server/source relationship never diverge: after
\* any sequence of add_source_to_server, remove_source_from_server,
\* sync_source_to_server and remove_source_from_server_config calls, whether
\* they return or raise, a source is in a held server's sources exactly when
\* the server is in the source's servers.
C26_EndsAgree ==
    Constructed =>
       \A i \in 1..Len(ctl_servers), j \in 1..Len(ctl_sources) :
          ServerListsSource(heap[ctl_servers[i]], ctl_sources[j].id)
             <=> SourceListsServer(ctl_sources[j], ctl_servers[i])

\* the server ids a saved sources.json lists under its sources
SavedServerIds(file) ==
    IF file.st = "json" /\ IsDict(file.val) /\ IsList(Get(file.val, K_sources))
    THEN UNION { { Items(Get(Items(Get(file.val, K_sources))[j], K_servers))[i] :
                     i \in 1..Len(Items(Get(Items(Get(file.val, K_sources))[j],
                                            K_servers))) } :
                 j \in 1..Len(Items(Get(file.val, K_sources))) }
    ELSE {}

\* C27: no dangling association survives a delete: every server in a held
\* source's `servers` is held by the ServerController, every source in a
\* held server's `sources` is held by the SourceController, and the saved
\* sources.json lists only ids of held servers.
C27_NoDanglingAssociation ==
    Constructed =>
       /\ \A j \in 1..Len(ctl_sources) :
             \A n \in 1..Len(ctl_sources[j].servers) :
                \E i \in 1..Len(ctl_servers) : ctl_servers[i] = ctl_sources[j].servers[n]
       /\ \A i \in 1..Len(ctl_servers) :
             \A n \in 1..Len(Get(heap[ctl_servers[i]].extra, K_sources).e) :
                Get(heap[ctl_servers[i]].extra, K_sources).e[n].val.s
                   \in SourceKeys(ctl_sources)
       /\ \A id \in SavedServerIds(sources_file) :
             id.s \in KeysOf(ServerIds(heap, ctl_servers))

====
